---- MODULE Spec2Model ----
(***************************************************************************)
(* Model of the "remember this" corpus builder (src/unnamed/part_001):     *)
(* the pipeline driver main(), the running-average store, the three        *)
(* classifiers and the corpus curator.                                     *)
(*                                                                         *)
(* Representation choices                                                  *)
(*  - A calendar date "YYYY-MM-DD" is the integer YYYYMMDD; on ISO dates   *)
(*    String.localeCompare orders exactly as these integers do.  NoDate    *)
(*    (0) is the empty date string.                                        *)
(*  - Event ids are canonical decimal strings, modelled by their numeric   *)
(*    value; NoId (0) is a missing (falsy) id.                             *)
(*  - Text fields are TLA+ strings; template literals are built with \o    *)
(*    and ToString.                                                        *)
(*  - Minutes are kept in seconds (1/60 minute).                           *)
(*  - Win probabilities are kept in percent.                               *)
(*  - Every JSON value that may be missing or malformed is a record with  *)
(*    a field "kind"; kind "null" is a JSON null / missing element.        *)
(*  - The image field of an entry is left out (no rule reads it).          *)
(***************************************************************************)
EXTENDS Integers, Sequences, FiniteSets, TLC

\* ---------------------------------------------------------------- bounds
MaxSeasons == 1       \* seasons START_SEASON .. CURRENT_YEAR enumerated
MaxGameId  == 2       \* event ids are 1 .. MaxGameId
MaxEvents  == 2       \* events returned by one schedule call
CorpusCap  == 3       \* the cap of main (400 in the source), scaled down
MinCorpus  == 2       \* the size below which main warns (250 in the source),
                      \* scaled down with the cap
MaxSeasonGames == 9   \* games one player plays when followed through seasons
MaxSamples == 2       \* win-probability samples of a game checked for its peak lead
MaxRefreshes == 4     \* refreshes of the card widget that are started
MaxRetries == 3       \* largest retries argument of fetchJson (its default is 3)

\* ------------------------------------------------------ program constants
PACERS_TEAM_ID   == "11"
START_SEASON     == 1995
CURRENT_YEAR     == START_SEASON + MaxSeasons - 1
REQUEST_DELAY_MS == 45
SeasonTypes      == <<2, 3>>

Null   == [kind |-> "null"]
NoDate == 0
NoId   == 0

\* ---------------------------------------------------------------- helpers
Min(a, b) == IF a < b THEN a ELSE b

Abs(a) == IF a < 0 THEN 0 - a ELSE a

Range(s) == {s[k] : k \in 1..Len(s)}

\* String(n).padStart(2, '0') for 0 <= n < 100
PadStart2(n) == IF n < 10 THEN "0" \o ToString(n) ELSE ToString(n)

\* Number.prototype.toFixed(1) of the quotient num/den (den > 0, num >= 0)
ToFixed1(num, den) ==
  LET tenths == (num * 20 + den) \div (2 * den)
  IN  ToString(tenths \div 10) \o "." \o ToString(tenths % 10)

\* ------------------------------------------------------------ stat parsing
\* A stat cell is [kind |-> "num", n |-> ..], a text without a number
\* ([kind |-> "text"]) or Null (undefined / null).
Num(n) == [kind |-> "num", n |-> n]

\* parseNumberFromStat: the first number of the text, 0 when there is none.
parseNumberFromStat(value) ==
  IF value.kind = "num" THEN value.n ELSE 0

\* a parser that does not know the clock form
parseMinutesNoClock(value) ==
  IF value.kind \in {"null", "empty"} THEN 0
  ELSE IF value.kind = "bare" THEN value.min * 60
  ELSE IF value.kind = "iso" THEN value.min * 60 + value.sec
  ELSE parseNumberFromStat(value) * 60

\* parseMinutes: a minutes cell is missing/empty, bare minutes, a clock
\* "MM:SS" or an ISO duration "PTxMyS"; the result is in seconds.
parseMinutes(value) ==
  IF value.kind \in {"null", "empty"} THEN 0
  ELSE IF value.kind = "bare" THEN value.min * 60
  ELSE IF value.kind = "clock" THEN value.min * 60 + value.sec
  ELSE IF value.kind = "iso" THEN value.min * 60 + value.sec
  ELSE parseNumberFromStat(value) * 60

\* seasonLabelFromDate: month >= 7 starts a new season year.
seasonLabelFromDate(date) ==
  LET year  == date \div 10000
      month == (date \div 100) % 100
      start == IF month >= 7 THEN year ELSE year - 1
  IN  ToString(start) \o "-" \o PadStart2((start + 1) % 100)

\* statMapForAthlete: out[labels[i]] = stats[i]; a later label overwrites
\* an earlier one, a label past the end of stats maps to undefined.
statMapForAthlete(athleteRow, labels) ==
  [L \in Range(labels) |->
     LET idx == CHOOSE k \in 1..Len(labels) :
                  /\ labels[k] = L
                  /\ \A m \in (k+1)..Len(labels) : labels[m] # L
     IN  IF idx <= Len(athleteRow.stats) THEN athleteRow.stats[idx] ELSE Null]

\* statMap.X for a label that may be absent from the map
StatOf(statMap, L) == IF L \in DOMAIN statMap THEN statMap[L] ELSE Null

\* ------------------------------------------------------- context extractor
\* competitors.find(...): the first element satisfying the test, Null if none
FindPacers(competitors) ==
  IF \E k \in 1..Len(competitors) : competitors[k].id = PACERS_TEAM_ID
  THEN competitors[CHOOSE k \in 1..Len(competitors) :
         /\ competitors[k].id = PACERS_TEAM_ID
         /\ \A m \in 1..(k-1) : competitors[m].id # PACERS_TEAM_ID]
  ELSE Null

FindOpponent(competitors) ==
  IF \E k \in 1..Len(competitors) : competitors[k].id # PACERS_TEAM_ID
  THEN competitors[CHOOSE k \in 1..Len(competitors) :
         /\ competitors[k].id # PACERS_TEAM_ID
         /\ \A m \in 1..(k-1) : competitors[m].id = PACERS_TEAM_ID]
  ELSE Null

\* a context built without an opponent: the team stands in for it
collectPacersTeamContextAlone(summary) ==
  LET pacersComp == FindPacers(summary.competitors)
      found      == FindOpponent(summary.competitors)
      oppComp    == IF found = Null THEN pacersComp ELSE found
  IN  IF pacersComp = Null THEN Null
      ELSE [kind        |-> "context",
            pacersComp  |-> pacersComp,
            oppComp     |-> oppComp,
            pacersScore |-> pacersComp.score,
            oppScore    |-> oppComp.score,
            won         |-> pacersComp.winner,
            homeAway    |-> IF pacersComp.homeAway = "home" THEN "HOME" ELSE "AWAY",
            opponent    |-> oppComp.abbreviation,
            result      |-> (IF pacersComp.winner THEN "W" ELSE "L") \o " "
                            \o ToString(pacersComp.score) \o "-" \o ToString(oppComp.score),
            playoffs    |-> summary.seasonType = 3]

\* collectPacersTeamContext: Null when either side cannot be resolved
collectPacersTeamContext(summary) ==
  LET pacersComp == FindPacers(summary.competitors)
      oppComp    == FindOpponent(summary.competitors)
  IN  IF pacersComp = Null \/ oppComp = Null THEN Null
      ELSE [kind        |-> "context",
            pacersComp  |-> pacersComp,
            oppComp     |-> oppComp,
            pacersScore |-> pacersComp.score,
            oppScore    |-> oppComp.score,
            won         |-> pacersComp.winner,
            homeAway    |-> IF pacersComp.homeAway = "home" THEN "HOME" ELSE "AWAY",
            opponent    |-> oppComp.abbreviation,
            result      |-> (IF pacersComp.winner THEN "W" ELSE "L") \o " "
                            \o ToString(pacersComp.score) \o "-" \o ToString(oppComp.score),
            playoffs    |-> summary.seasonType = 3]

\* ------------------------------------------------------------------ entries
\* A stat line is the sequence of the pieces of its template literal: the
\* texts of the template and the numbers printed into it.
Txt(text) == [kind |-> "text", text |-> text]

PlayerStatLine(points, rebounds, assists) ==
  <<Num(points), Txt(" pts"), Txt(", "), Num(rebounds), Txt(" reb"), Txt(", "),
    Num(assists), Txt(" ast")>>

TeamStatLine(context) ==
  <<Num(context.pacersScore), Txt(" pts"), Txt(", opp "),
    Num(context.oppScore), Txt(" pts")>>

createBaseEntry(context, summary, player, statLine, category, why) ==
  [date      |-> summary.date,
   season    |-> seasonLabelFromDate(summary.date),
   opponent  |-> context.opponent,
   homeAway  |-> context.homeAway,
   result    |-> context.result,
   playoffs  |-> context.playoffs,
   player    |-> player.name,
   stat_line |-> statLine,
   category  |-> category,
   trauma    |-> FALSE,
   why       |-> why]

\* an upgrade that attaches no severity label
traumaifyNoLevel(entry, why) ==
  [f \in DOMAIN entry |->
     CASE f = "category"     -> "TRAUMA"
       [] f = "trauma"       -> TRUE
       [] f = "why"          -> why
       [] OTHER              -> entry[f]]

traumaify(entry, why) ==
  [f \in (DOMAIN entry) \cup {"trauma_level"} |->
     CASE f = "category"     -> "TRAUMA"
       [] f = "trauma"       -> TRUE
       [] f = "trauma_level" -> "HIGH"
       [] f = "why"          -> why
       [] OTHER              -> entry[f]]

\* ------------------------------------------------------ running averages
\* runningAverages[avgKey] || { games: 0, points: 0 }
Lookup(store, avgKey) ==
  IF avgKey \in DOMAIN store THEN store[avgKey] ELSE [games |-> 0, points |-> 0]

\* `${seasonKey}:${name}`
AvgKey(seasonKey, name) == seasonKey \o ":" \o name

\* the read placed after the write of lines 264-267
ReadAverageAfterRecord(store, seasonKey, name, points) ==
  [games  |-> Lookup(store, AvgKey(seasonKey, name)).games + 1,
   points |-> Lookup(store, AvgKey(seasonKey, name)).points + points]

\* lines 229-230: the record the rules of this row work with
ReadAverage(store, seasonKey, name, points) ==
  Lookup(store, AvgKey(seasonKey, name))

\* a record that counts every game twice
RecordGameCountsTwice(store, avgKey, avg, points) ==
  [k \in (DOMAIN store) \cup {avgKey} |->
     IF k = avgKey
     THEN [games |-> avg.games + 2, points |-> avg.points + points]
     ELSE store[k]]

\* lines 264-267: runningAverages[avgKey] = {games: avg.games+1, points: avg.points+points}
RecordGame(store, avgKey, avg, points) ==
  [k \in (DOMAIN store) \cup {avgKey} |->
     IF k = avgKey
     THEN [games |-> avg.games + 1, points |-> avg.points + points]
     ELSE store[k]]

\* --------------------------------------------------- player moment rules
StatLabels == <<"MIN", "PTS", "REB", "AST", "TO", "STL", "BLK">>

\* lines 215-228: the figures of one athlete row
RowStats(row, labels) ==
  LET statMap == statMapForAthlete(row, labels)
      name    == IF row.displayName = "" THEN "Unknown" ELSE row.displayName
  IN  [name      |-> name,
       player    |-> [name |-> name, id |-> IF row.id = "" THEN "0" ELSE row.id],
       points    |-> parseNumberFromStat(StatOf(statMap, "PTS")),
       rebounds  |-> parseNumberFromStat(StatOf(statMap, "REB")),
       assists   |-> parseNumberFromStat(StatOf(statMap, "AST")),
       turnovers |-> parseNumberFromStat(StatOf(statMap, "TO")),
       steals    |-> parseNumberFromStat(StatOf(statMap, "STL")),
       blocks    |-> parseNumberFromStat(StatOf(statMap, "BLK")),
       minutes   |-> parseMinutes(StatOf(statMap, "MIN")),
       isBench   |-> row.starter = "false"]

\* the explosion group with the 45-point rule tested before the bench rule
ExplosionWhyOrbitalFirst(st, avg) ==
  LET lowAverage == IF avg.games > 0 THEN avg.points < 12 * avg.games ELSE TRUE
      average    == IF avg.games > 0 THEN ToFixed1(avg.points, avg.games) ELSE "0.0"
      tenthsMin  == (st.minutes + 3) \div 6
  IN  IF st.points >= 45
        THEN st.name \o " went for " \o ToString(st.points) \o ". Full orbital launch."
      ELSE IF st.isBench /\ st.points >= 30
        THEN "Bench detonation: " \o st.name \o " dropped " \o ToString(st.points)
             \o " off the bench."
      ELSE IF st.points >= 35 /\ lowAverage /\ avg.games >= 8
        THEN st.name \o " averaged " \o average \o " then exploded for "
             \o ToString(st.points) \o "."
      ELSE IF st.points >= 25 /\ st.minutes > 0 /\ st.minutes < 25 * 60
        THEN st.name \o " scored " \o ToString(st.points) \o " in "
             \o ToString(tenthsMin \div 10) \o "." \o ToString(tenthsMin % 10)
             \o " minutes."
      ELSE ""

\* lines 231-242: the explosion rule group, "" when no rule matches.
\* preGameAverage < 12 is avg.points < 12 * avg.games when avg.games > 0,
\* and 0 < 12 otherwise; minutes are in seconds.
ExplosionWhy(st, avg) ==
  LET lowAverage == IF avg.games > 0 THEN avg.points < 12 * avg.games ELSE TRUE
      average    == IF avg.games > 0 THEN ToFixed1(avg.points, avg.games) ELSE "0.0"
      tenthsMin  == (st.minutes + 3) \div 6
  IN  IF st.isBench /\ st.points >= 30
        THEN "Bench detonation: " \o st.name \o " dropped " \o ToString(st.points)
             \o " off the bench."
      ELSE IF st.points >= 45
        THEN st.name \o " went for " \o ToString(st.points) \o ". Full orbital launch."
      ELSE IF st.points >= 35 /\ lowAverage /\ avg.games >= 8
        THEN st.name \o " averaged " \o average \o " then exploded for "
             \o ToString(st.points) \o "."
      ELSE IF st.points >= 25 /\ st.minutes > 0 /\ st.minutes < 25 * 60
        THEN st.name \o " scored " \o ToString(st.points) \o " in "
             \o ToString(tenthsMin \div 10) \o "." \o ToString(tenthsMin % 10)
             \o " minutes."
      ELSE ""

\* lines 247-259: the chaos rule group, "" when no rule matches
ChaosWhy(st) ==
  LET tripleDoubleBuckets ==
        Cardinality({k \in 1..5 :
          <<st.points, st.rebounds, st.assists, st.steals, st.blocks>>[k] >= 10})
  IN  IF tripleDoubleBuckets >= 3 /\ st.turnovers >= 7
        THEN st.name \o " posted a triple-double and " \o ToString(st.turnovers)
             \o " turnovers. Maximum volatility."
      ELSE IF st.turnovers >= 10
        THEN st.name \o " turned it over " \o ToString(st.turnovers)
             \o " times and somehow it was still a game."
      ELSE IF st.steals >= 6
        THEN st.name \o " ripped " \o ToString(st.steals) \o " steals in one night."
      ELSE IF st.blocks >= 7
        THEN st.name \o " rejected " \o ToString(st.blocks) \o " shots like a bouncer."
      ELSE IF st.assists >= 15 /\ st.turnovers = 0
        THEN st.name \o " posted " \o ToString(st.assists)
             \o " assists with 0 turnovers. Surgical control."
      ELSE ""

\* ----------------------------------------------------------- text tests
\* The texts the summaries carry, and for each the patterns the classifiers
\* test that it contains (after the case folding the code applies).
TextFacts ==
  { <<"Final/OT", "ot">>,
    <<"Final - Game 7", "GAME 7">>,
    <<"NY wins series 4-3", "WINS SERIES">>,
    <<"IND wins series 4-3", "WINS SERIES">>,
    <<"IND wins series 4-3", "IND">>,
    <<"East Finals - Game 7", "GAME 7">>,
    <<"Eastern Conference Finals", "CONFERENCE FINALS">>,
    <<"NBA Finals", "NBA FINALS">>,
    <<"Smith makes 25-foot three point jumper", "makes">>,
    <<"Pacers hit the free throw", "hit">>,
    <<"Pacers hit the free throw", "pacers">> }

Includes(text, pattern) == <<text, pattern>> \in TextFacts

\* plays.some / array.find callbacks dereference every element they visit
HasNull(seq) == \E k \in 1..Len(seq) : seq[k] = Null

\* ------------------------------------------------------------- peak lead
\* the implied lead cut to a whole number, not rounded
ImpliedLeadTruncated(pct) == ((pct - 50) * 4) \div 10

\* Math.round((x - 0.5) * 40) with x given in percent
ImpliedLead(pct) == ((pct - 50) * 4 + 5) \div 10

RECURSIVE PeakLeadFrom(_, _, _)
PeakLeadFrom(winProb, pacersHome, peak) ==
  IF winProb = <<>> THEN peak
  ELSE LET wp          == Head(winProb)
           diff        == wp.homeScore - wp.awayScore
           pacersEdge  == IF pacersHome THEN diff ELSE 0 - diff
           afterEdge   == IF pacersEdge > peak THEN pacersEdge ELSE peak
           impliedLead == IF pacersHome THEN ImpliedLead(wp.homeWinPercentage)
                          ELSE ImpliedLead(100 - wp.homeWinPercentage)
           afterBoth   == IF impliedLead > afterEdge THEN impliedLead ELSE afterEdge
       IN  PeakLeadFrom(Tail(winProb), pacersHome, afterBoth)

\* getPacersPeakLead raises a TypeError on a null sample (wp.homeWinPercentage)
getPacersPeakLeadThrows(summary) == HasNull(summary.winprobability)

getPacersPeakLead(summary, context) ==
  PeakLeadFrom(summary.winprobability, context.pacersComp.homeAway = "home", 0)

\* --------------------------------------------------------- team weirdness
\* findStat of parseTeamStats: the displayed value of the first statistic
\* named key, "" (Null) when there is none; stats.find raises a TypeError on
\* a null item met before a match.
FindStatIndex(stats, key) ==
  IF \E k \in 1..Len(stats) : stats[k] # Null /\ key \in {stats[k].name, stats[k].displayName}
  THEN CHOOSE k \in 1..Len(stats) :
         /\ stats[k] # Null /\ key \in {stats[k].name, stats[k].displayName}
         /\ \A m \in 1..(k-1) :
              stats[m] = Null \/ key \notin {stats[m].name, stats[m].displayName}
  ELSE Len(stats) + 1

findStatThrows(stats, key) ==
  \E m \in 1..(FindStatIndex(stats, key) - 1) : m <= Len(stats) /\ stats[m] = Null

findStat(stats, key) ==
  IF FindStatIndex(stats, key) <= Len(stats)
  THEN stats[FindStatIndex(stats, key)].displayValue ELSE Null

parseTeamStatsThrows(summary) ==
  \/ findStatThrows(summary.teamStats, "FIELD GOAL PCT")
  \/ /\ parseNumberFromStat(findStat(summary.teamStats, "FIELD GOAL PCT")) = 0
     /\ findStatThrows(summary.teamStats, "FG%")

parseTeamStats(summary, context) ==
  LET first == parseNumberFromStat(findStat(summary.teamStats, "FIELD GOAL PCT"))
  IN  [fgPct       |-> IF first # 0 THEN first
                       ELSE parseNumberFromStat(findStat(summary.teamStats, "FG%")),
       pacersScore |-> context.pacersScore,
       oppScore    |-> context.oppScore,
       won         |-> context.won]

TeamEvent == [name |-> "Team Event", id |-> "0"]

detectTeamWeirdnessThrows(summary, context) ==
  parseTeamStatsThrows(summary) \/ getPacersPeakLeadThrows(summary)

\* the rules as one chain in which the first match wins
detectTeamWeirdnessFirstOnly(summary, context) ==
  LET team     == parseTeamStats(summary, context)
      statLine == TeamStatLine(context)
      E(why)   == createBaseEntry(context, summary, TeamEvent, statLine, "TEAM_WEIRDNESS", why)
      peak     == getPacersPeakLead(summary, context)
      margin   == Abs(team.pacersScore - team.oppScore)
  IN  IF team.won /\ team.fgPct > 0 /\ team.fgPct < 35
        THEN <<E("Pacers won while shooting " \o ToString(team.fgPct)
                 \o ".0%. Basketball is fake.")>>
      ELSE IF ~team.won /\ team.pacersScore >= 130
        THEN <<E("Dropped 130+ and still lost. Defense dissolved completely.")>>
      ELSE IF team.oppScore >= 150
        THEN <<E("Allowed 150+. Historical nonsense occurred.")>>
      ELSE IF ~team.won /\ peak >= 20
        THEN <<E("Blew a " \o ToString(peak) \o "-point lead.")>>
      ELSE IF ~team.won /\ Includes(summary.detail, "ot") /\ margin \in {1, 2}
        THEN <<E("Overtime loss by " \o ToString(margin) \o ". Painfully precise.")>>
      ELSE <<>>

\* the items of detectTeamWeirdness, in the order the rules push them
detectTeamWeirdness(summary, context) ==
  LET team     == parseTeamStats(summary, context)
      statLine == TeamStatLine(context)
      E(why)   == createBaseEntry(context, summary, TeamEvent, statLine, "TEAM_WEIRDNESS", why)
      peak     == getPacersPeakLead(summary, context)
      margin   == Abs(team.pacersScore - team.oppScore)
  IN  (IF team.won /\ team.fgPct > 0 /\ team.fgPct < 35
       THEN <<E("Pacers won while shooting " \o ToString(team.fgPct)
                \o ".0%. Basketball is fake.")>> ELSE <<>>)
      \o (IF ~team.won /\ team.pacersScore >= 130
          THEN <<E("Dropped 130+ and still lost. Defense dissolved completely.")>> ELSE <<>>)
      \o (IF team.oppScore >= 150
          THEN <<E("Allowed 150+. Historical nonsense occurred.")>> ELSE <<>>)
      \o (IF ~team.won /\ peak >= 20
          THEN <<E("Blew a " \o ToString(peak) \o "-point lead.")>> ELSE <<>>)
      \o (IF ~team.won /\ Includes(summary.detail, "ot") /\ margin \in {1, 2}
          THEN <<E("Overtime loss by " \o ToString(margin) \o ". Painfully precise.")>>
          ELSE <<>>)

\* ------------------------------------------------------------------ trauma
Infinity == 1000000

\* parseClockToSeconds, in tenths of a second
ClockTenths(c) == c.min * 600 + c.sec * 10 + c.tenths

parseClockToSeconds(play) ==
  IF play.clock # Null THEN ClockTenths(play.clock)
  ELSE IF play.textClock # Null THEN ClockTenths(play.textClock)
  ELSE Infinity

\* the playoff entry of competition.series, Null when there is none
FindPlayoffSeries(series) ==
  IF \E k \in 1..Len(series) : series[k] # Null /\ series[k].type = "playoff"
  THEN series[CHOOSE k \in 1..Len(series) :
         /\ series[k] # Null /\ series[k].type = "playoff"
         /\ \A m \in 1..(k-1) : series[m] = Null \/ series[m].type # "playoff"]
  ELSE Null

FindPlayoffSeriesThrows(series) ==
  \E k \in 1..Len(series) :
    /\ series[k] = Null
    /\ \A m \in 1..(k-1) : series[m] = Null \/ series[m].type # "playoff"

lateOpponentGameWinner(plays) ==
  \E k \in 1..Len(plays) :
    /\ plays[k] # Null
    /\ \E verb \in {"makes", "made", "hits", "hit"} : Includes(plays[k].text, verb)
    /\ parseClockToSeconds(plays[k]) <= 30
    /\ ~Includes(plays[k].text, "pacers")

\* plays.some stops at the first play that satisfies the test
lateOpponentGameWinnerThrows(plays) ==
  \E k \in 1..Len(plays) :
    /\ plays[k] = Null
    /\ ~lateOpponentGameWinner(SubSeq(plays, 1, k - 1))

detectTraumaThrows(summary, context) ==
  /\ ~context.won
  /\ \/ FindPlayoffSeriesThrows(summary.series)
     \/ getPacersPeakLeadThrows(summary)
     \/ lateOpponentGameWinnerThrows(summary.plays)

\* the reasons with the blown lead tested before the playoff rules
traumaReasonsLeadFirst(summary, context) ==
  LET series      == FindPlayoffSeries(summary.series)
      summaryText == IF series = Null THEN "" ELSE series.summary
      seriesTitle == IF series = Null THEN "" ELSE series.title
      peak        == getPacersPeakLead(summary, context)
  IN  (IF peak >= 20
       THEN <<"Led by " \o ToString(peak) \o " and still lost. Hope briefly existed.">>
       ELSE <<>>)
      \o (IF context.playoffs /\ Includes(summaryText, "WINS SERIES")
             /\ ~Includes(summaryText, "IND")
          THEN <<"Playoff elimination confirmed. Remote tossed.">> ELSE <<>>)
      \o (IF context.playoffs /\ Includes(summary.detail, "GAME 7")
          THEN <<"Game 7 loss. Historic pain tier unlocked.">> ELSE <<>>)
      \o (IF context.playoffs /\ (Includes(seriesTitle, "CONFERENCE FINALS")
                                  \/ Includes(seriesTitle, "NBA FINALS"))
          THEN <<"ECF/Finals loss. Banner-adjacent heartbreak.">> ELSE <<>>)
      \o (IF context.playoffs /\ context.opponent \in {"NY", "MIA"}
          THEN <<context.opponent \o " playoff loss. Annual emotional tax paid.">>
          ELSE <<>>)
      \o (IF lateOpponentGameWinner(summary.plays)
          THEN <<"Buzzer-beater loss in the final 3 seconds.">> ELSE <<>>)

\* lines 342-375: the reasons in the order they are pushed
traumaReasons(summary, context) ==
  LET series      == FindPlayoffSeries(summary.series)
      summaryText == IF series = Null THEN "" ELSE series.summary
      seriesTitle == IF series = Null THEN "" ELSE series.title
      peak        == getPacersPeakLead(summary, context)
  IN  (IF context.playoffs /\ Includes(summaryText, "WINS SERIES")
          /\ ~Includes(summaryText, "IND")
       THEN <<"Playoff elimination confirmed. Remote tossed.">> ELSE <<>>)
      \o (IF context.playoffs /\ Includes(summary.detail, "GAME 7")
          THEN <<"Game 7 loss. Historic pain tier unlocked.">> ELSE <<>>)
      \o (IF context.playoffs /\ (Includes(seriesTitle, "CONFERENCE FINALS")
                                  \/ Includes(seriesTitle, "NBA FINALS"))
          THEN <<"ECF/Finals loss. Banner-adjacent heartbreak.">> ELSE <<>>)
      \o (IF context.playoffs /\ context.opponent \in {"NY", "MIA"}
          THEN <<context.opponent \o " playoff loss. Annual emotional tax paid.">>
          ELSE <<>>)
      \o (IF peak >= 20
          THEN <<"Led by " \o ToString(peak) \o " and still lost. Hope briefly existed.">>
          ELSE <<>>)
      \o (IF lateOpponentGameWinner(summary.plays)
          THEN <<"Buzzer-beater loss in the final 3 seconds.">> ELSE <<>>)

\* detectTrauma without the early return of lines 324-326
detectTraumaIgnoresWin(summary, context) ==
  LET base == createBaseEntry(context, summary, TeamEvent, TeamStatLine(context),
                              "TRAUMA", "Hope briefly existed.")
      reasons == traumaReasons(summary, context)
  IN  IF Len(reasons) > 0 THEN <<traumaify(base, reasons[1])>> ELSE <<>>

detectTrauma(summary, context) ==
  IF context.won THEN <<>>
  ELSE LET base == createBaseEntry(context, summary, TeamEvent, TeamStatLine(context),
                                   "TRAUMA", "Hope briefly existed.")
           reasons == traumaReasons(summary, context)
       IN  IF Len(reasons) > 0 THEN <<traumaify(base, reasons[1])>> ELSE <<>>

\* ------------------------------------------------------------------ curator
\* a key that leaves the rationale out
EntryKeyWithoutWhy(entry) ==
  ToString(entry.date) \o "|" \o entry.opponent \o "|" \o entry.player
  \o "|" \o entry.category

\* [date, opponent, player, category, why].join('|')
EntryKey(entry) ==
  ToString(entry.date) \o "|" \o entry.opponent \o "|" \o entry.player
  \o "|" \o entry.category \o "|" \o entry.why

\* dedupeEntries: keep an entry unless its key was seen before
RECURSIVE DedupeFrom(_, _, _)
DedupeFrom(entries, seen, out) ==
  IF entries = <<>> THEN out
  ELSE LET entry == Head(entries)
           key   == EntryKey(entry)
       IN  IF key \notin seen
           THEN DedupeFrom(Tail(entries), seen \cup {key}, Append(out, entry))
           ELSE DedupeFrom(Tail(entries), seen, out)

dedupeEntries(entries) == DedupeFrom(entries, {}, <<>>)

\* String(entry.stat_line).split(' pts')[0]: the text before the first ' pts'
RECURSIVE BeforePts(_)
BeforePts(statLine) ==
  IF statLine = <<>> \/ Head(statLine) = Txt(" pts") THEN <<>>
  ELSE <<Head(statLine)>> \o BeforePts(Tail(statLine))

\* parseNumberFromStat on a text in pieces: its first number, 0 if none
RECURSIVE FirstNumber(_)
FirstNumber(pieces) ==
  IF pieces = <<>> THEN 0
  ELSE IF Head(pieces).kind = "num" THEN parseNumberFromStat(Head(pieces))
       ELSE FirstNumber(Tail(pieces))

\* a score in which the trauma base is the bonus of the other categories
entryQualityScoreLowBase(entry) ==
  (IF entry.trauma = TRUE THEN 25 ELSE 0)
  + (IF entry.category \in {"RANDOM_EXPLOSION", "CHAOS"} THEN 25 ELSE 0)
  + Min(FirstNumber(BeforePts(entry.stat_line)), 60)

entryQualityScore(entry) ==
  (IF entry.trauma = TRUE THEN 100 ELSE 0)
  + (IF entry.category \in {"RANDOM_EXPLOSION", "CHAOS"} THEN 25 ELSE 0)
  + Min(FirstNumber(BeforePts(entry.stat_line)), 60)

\* The comparators of main: negative when a sorts before b.
\* String(b.date).localeCompare(String(a.date))
CompareDateDesc(a, b) ==
  IF b.date < a.date THEN -1 ELSE IF b.date > a.date THEN 1 ELSE 0

\* a selection by recency alone: the quality score left out
CompareQualityByDate(a, b) == CompareDateDesc(a, b)

\* entryQualityScore(b) - entryQualityScore(a) || date comparison
CompareQuality(a, b) ==
  IF entryQualityScore(b) - entryQualityScore(a) # 0
  THEN entryQualityScore(b) - entryQualityScore(a)
  ELSE CompareDateDesc(a, b)

Compare(order, a, b) ==
  IF order = "quality" THEN CompareQuality(a, b) ELSE CompareDateDesc(a, b)

\* a sort that is not stable: an element goes before its equals
RECURSIVE InsertSortedUnstable(_, _, _)
InsertSortedUnstable(sorted, e, order) ==
  IF sorted = <<>> THEN <<e>>
  ELSE IF Compare(order, Head(sorted), e) >= 0
       THEN <<e>> \o sorted
       ELSE <<Head(sorted)>> \o InsertSortedUnstable(Tail(sorted), e, order)

\* Array.prototype.sort is stable: an element goes after every element
\* already placed that does not sort after it.
RECURSIVE InsertSorted(_, _, _)
InsertSorted(sorted, e, order) ==
  IF sorted = <<>> THEN <<e>>
  ELSE IF Compare(order, Head(sorted), e) > 0
       THEN <<e>> \o sorted
       ELSE <<Head(sorted)>> \o InsertSorted(Tail(sorted), e, order)

\* (the set binding makes the list placed so far a value, so that it is
\* computed once per element)
RECURSIVE SortFrom(_, _, _)
SortFrom(rest, sorted, order) ==
  IF rest = <<>> THEN sorted
  ELSE CHOOSE result \in
         {SortFrom(Tail(rest), placed, order) :
            placed \in {InsertSorted(sorted, Head(rest), order)}} : TRUE

Sort(entries, order) ==
  CHOOSE result \in {SortFrom(list, <<>>, order) : list \in {entries}} : TRUE

\* the cap selection truncated one entry too late
CapSelectOffByOne(finalEntries) ==
  IF Len(finalEntries) > CorpusCap
  THEN Sort(SubSeq(Sort(finalEntries, "quality"), 1, CorpusCap + 1), "date")
  ELSE finalEntries

\* the cap selection without the final re-sort by date
CapSelectNoResort(finalEntries) ==
  IF Len(finalEntries) > CorpusCap
  THEN SubSeq(Sort(finalEntries, "quality"), 1, CorpusCap)
  ELSE finalEntries

\* lines 469-475: the cap selection
CapSelect(finalEntries) ==
  IF Len(finalEntries) > CorpusCap
  THEN Sort(SubSeq(Sort(finalEntries, "quality"), 1, CorpusCap), "date")
  ELSE finalEntries

\* lines 466-475
Curate(collected) == CapSelect(Sort(dedupeEntries(collected), "date"))

\* -------------------------------------------------------- the id set
\* allIds is a JavaScript Set: it keeps insertion order and ignores an
\* element it already holds.
SetAdd(set, id) == IF id \in Range(set) THEN set ELSE Append(set, id)

RECURSIVE SetAddAll(_, _)
SetAddAll(set, ids) ==
  IF ids = <<>> THEN set ELSE SetAddAll(SetAdd(set, Head(ids)), Tail(ids))

\* events.map(event => event.id).filter(Boolean)
FilterIds(ids) == SelectSeq(ids, LAMBDA id : id # NoId)

\* an insertion that keeps the order of arrival
InsertIdAtEnd(sorted, id) == Append(sorted, id)

\* Array.from(allIds).sort((a, b) => Number(a) - Number(b))
RECURSIVE InsertId(_, _)
InsertId(sorted, id) ==
  IF sorted = <<>> THEN <<id>>
  ELSE IF Head(sorted) - id > 0 THEN <<id>> \o sorted
       ELSE <<Head(sorted)>> \o InsertId(Tail(sorted), id)

RECURSIVE SortIdsFrom(_, _)
SortIdsFrom(rest, sorted) ==
  IF rest = <<>> THEN sorted
  ELSE SortIdsFrom(Tail(rest), InsertId(sorted, Head(rest)))

\* the ids left in the insertion order of the Set
SortIdsOmitted(ids) == ids

SortIds(ids) == SortIdsFrom(ids, <<>>)

\* ------------------------------------------------- the summaries served
MkRow(name, starter, min, pts, reb, ast, to, stl, blk) ==
  [kind |-> "row", displayName |-> name, id |-> "7", starter |-> starter,
   stats |-> <<min, Num(pts), Num(reb), Num(ast), Num(to), Num(stl), Num(blk)>>]

Clock(m, sec) == [kind |-> "clock", min |-> m, sec |-> sec]

RowMiller50  == MkRow("Miller", "true", Clock(40, 0), 50, 3, 4, 2, 1, 0)
RowSmits32   == MkRow("Smits", "false", Clock(30, 0), 32, 10, 2, 3, 0, 2)
RowMiller12  == MkRow("Miller", "true", Clock(38, 30), 12, 2, 5, 1, 6, 0)

Competitor(id, abbr, homeAway, score, winner) ==
  [kind |-> "competitor", id |-> id, abbreviation |-> abbr, homeAway |-> homeAway,
   score |-> score, winner |-> winner]

Sample(pct, home, away) ==
  [kind |-> "sample", homeWinPercentage |-> pct, homeScore |-> home, awayScore |-> away]

FgPct(n) ==
  [kind |-> "stat", name |-> "fieldGoalPct", displayName |-> "FIELD GOAL PCT",
   displayValue |-> Num(n)]

GameWin ==
  [competitors |-> <<Competitor("11", "IND", "home", 110, TRUE),
                     Competitor("2", "BOS", "away", 100, FALSE)>>,
   date |-> 19951105, seasonType |-> 2, detail |-> "Final", series |-> <<>>,
   winprobability |-> <<Sample(60, 20, 15)>>, plays |-> <<>>,
   teamStats |-> <<FgPct(48)>>, hasPlayerBlock |-> TRUE, labels |-> StatLabels,
   athletes |-> <<RowMiller50, RowSmits32>>]

GameBlownLead ==
  [GameWin EXCEPT
     !.competitors = <<Competitor("18", "NY", "home", 150, TRUE),
                       Competitor("11", "IND", "away", 140, FALSE)>>,
     !.date = 19960110,
     !.winprobability = <<Sample(10, 80, 102), Sample(90, 150, 140)>>,
     !.athletes = <<RowMiller12>>]

GameNullRow == [GameWin EXCEPT !.athletes = <<RowMiller50, Null, RowSmits32>>]

GameNullSample ==
  [GameBlownLead EXCEPT !.winprobability = <<Null>>, !.athletes = <<RowSmits32>>]

GameNullPlay == [GameBlownLead EXCEPT !.plays = <<Null>>]

GameNoContext ==
  [GameWin EXCEPT !.competitors = <<Competitor("11", "IND", "home", 110, TRUE)>>]

GameNoPacers ==
  [GameWin EXCEPT !.competitors = <<Competitor("2", "BOS", "home", 99, TRUE),
                                    Competitor("18", "NY", "away", 90, FALSE)>>]

GameOld == [GameWin EXCEPT !.date = 19940301]

GameNoDate == [GameWin EXCEPT !.date = NoDate]

GameSeven ==
  [GameBlownLead EXCEPT
     !.date = 19970510, !.seasonType = 3, !.detail = "Final - Game 7",
     !.series = <<[kind |-> "series", type |-> "playoff",
                   summary |-> "NY wins series 4-3",
                   title |-> "Eastern Conference Finals"]>>,
     !.athletes = <<RowMiller50>>]

Summaries ==
  {GameWin, GameBlownLead, GameNullRow, GameNullSample, GameNullPlay,
   GameNoContext, GameNoPacers, GameOld, GameNoDate, GameSeven}

GameIds == 1..MaxGameId

\* the ids one schedule call can return: any order, repeats, missing ids
EventIdLists ==
  UNION {[1..n -> GameIds \cup {NoId}] : n \in 0..MaxEvents}

\* ------------------------------------------------------------------ state
VARIABLES
  pc,               \* position of main
  season,           \* loop variable of the season loop
  typeIdx,          \* index into SeasonTypes of the inner loop
  allIds,           \* the Set of event ids
  orderedIds,       \* the sorted ids
  i,                \* index of the game loop (1-based)
  runningAverages,  \* the running-average store
  collected,        \* the candidate entries
  summary,          \* the summary of the game being processed
  context,          \* its context
  seasonKey,        \* its season label
  events,           \* the local result of detectPlayerMoments
  rowIdx,           \* index of the athlete row being processed
  phase,            \* position inside the row: read, explosion, chaos, record
  avg,              \* the record read for the row
  finalEntries,     \* the final corpus
  written,          \* "no", "ok" or "failed": outcome of writeFileSync
  warned,           \* the small-corpus warning was printed
  exitCode,         \* process exit code, -1 while running
  \* ---- observation of the run (not program state)
  pacing,           \* "due" from a remote call until the next sleep(REQUEST_DELAY_MS)
  unpacedCall,      \* a remote call was issued while a pacing delay was due
  fetchLog,         \* ids whose summary was requested, in order
  unitLog,          \* <<season, seasonType>> of the schedule calls, in order
  unitFailed,       \* a schedule call failed
  returned,         \* the ids the successful schedule calls returned
  storeAtGameStart, \* the store when the current/last game was fetched
  lastOutcome,      \* how the current/last game ended
  processed,        \* <<seasonKey, name, points>> of the rows of the games not skipped
  rowTrace,         \* what has been done with the current row
  curateCount,      \* number of curator runs
  \* ---- a single function called on its own
  frame             \* the call frame of the function, NoFrame while main runs

mainVars == <<pc, season, typeIdx, allIds, orderedIds, i, runningAverages, collected,
          summary, context, seasonKey, events, rowIdx, phase, avg, finalEntries,
          written, warned, exitCode, pacing, unpacedCall, fetchLog, unitLog,
          unitFailed, returned, storeAtGameStart, lastOutcome, processed, rowTrace,
          curateCount>>

vars == <<mainVars, frame>>

NoFrame == [fn |-> "none"]

EmptyStore == [k \in {} |-> [games |-> 0, points |-> 0]]

NoAvg == [games |-> 0, points |-> 0]

SkipOutcomes == {"fetchFailed", "noContext", "badDate", "threw"}

\* main() has not taken a step
MainInit ==
  /\ pc = "seasons"
  /\ season = START_SEASON
  /\ typeIdx = 1
  /\ allIds = <<>>
  /\ orderedIds = <<>>
  /\ i = 1
  /\ runningAverages = EmptyStore
  /\ collected = <<>>
  /\ summary = Null
  /\ context = Null
  /\ seasonKey = ""
  /\ events = <<>>
  /\ rowIdx = 1
  /\ phase = "read"
  /\ avg = NoAvg
  /\ finalEntries = <<>>
  /\ written = "no"
  /\ warned = FALSE
  /\ exitCode = -1
  /\ pacing = "idle"
  /\ unpacedCall = FALSE
  /\ fetchLog = <<>>
  /\ unitLog = <<>>
  /\ unitFailed = FALSE
  /\ returned = {}
  /\ storeAtGameStart = EmptyStore
  /\ lastOutcome = "none"
  /\ processed = <<>>
  /\ rowTrace = {}
  /\ curateCount = 0

Init == MainInit /\ frame = NoFrame

\* a remote call is issued: it is unpaced when a delay is still due
RemoteCall ==
  /\ unpacedCall' = (unpacedCall \/ pacing = "due")
  /\ pacing' = "due"

\* await sleep(REQUEST_DELAY_MS): a delay of positive length has passed
PacingSleep == REQUEST_DELAY_MS > 0 /\ pacing' = "idle"

\* ---------------------------------------------------- season enumeration
\* lines 422-429: one fetchSeasonEventIds call and its try/catch
EnumerateSeason ==
  /\ pc = "seasons"
  /\ season <= CURRENT_YEAR
  /\ RemoteCall
  /\ unitLog' = Append(unitLog, <<season, SeasonTypes[typeIdx]>>)
  /\ \/ \E ids \in EventIdLists :
          /\ allIds' = SetAddAll(allIds, FilterIds(ids))
          /\ returned' = returned \cup Range(FilterIds(ids))
          /\ unitFailed' = unitFailed
     \/ /\ allIds' = allIds       \* the call failed: warned and skipped
        /\ returned' = returned
        /\ unitFailed' = TRUE
  /\ pc' = "seasonSleep"
  /\ UNCHANGED <<season, typeIdx, orderedIds, i, runningAverages, collected, summary,
                 context, seasonKey, events, rowIdx, phase, avg, finalEntries,
                 written, warned, exitCode, fetchLog, storeAtGameStart, lastOutcome,
                 processed, rowTrace, curateCount>>
  /\ UNCHANGED frame

\* line 430 and the loop increments of lines 420-421
SeasonSleep ==
  /\ pc = "seasonSleep"
  /\ PacingSleep
  /\ IF typeIdx < Len(SeasonTypes)
     THEN typeIdx' = typeIdx + 1 /\ season' = season /\ pc' = "seasons"
     ELSE /\ typeIdx' = 1
          /\ season' = season + 1
          /\ pc' = IF season + 1 <= CURRENT_YEAR THEN "seasons" ELSE "order"
  /\ UNCHANGED <<allIds, orderedIds, i, runningAverages, collected, summary,
                 context, seasonKey, events, rowIdx, phase, avg, finalEntries,
                 written, warned, exitCode, unpacedCall, fetchLog, unitLog, unitFailed,
                 returned,
                 storeAtGameStart, lastOutcome, processed, rowTrace, curateCount>>
  /\ UNCHANGED frame

\* lines 434-436
OrderIds ==
  /\ pc = "order"
  /\ orderedIds' = SortIds(allIds)
  /\ runningAverages' = EmptyStore
  /\ collected' = <<>>
  /\ i' = 1
  /\ pc' = "fetch"
  /\ UNCHANGED <<season, typeIdx, allIds, summary, context, seasonKey, events,
                 rowIdx, phase, avg, finalEntries, written, warned, exitCode,
                 pacing, unpacedCall, fetchLog, unitLog, unitFailed, returned,
                 storeAtGameStart,
                 lastOutcome, processed, rowTrace, curateCount>>
  /\ UNCHANGED frame

\* ---------------------------------------------------------- the game loop
\* lines 447-448: the date of the game is missing or before START_SEASON
DateRejected(ctxSummary) ==
  ctxSummary.date = NoDate \/ ctxSummary.date \div 10000 < START_SEASON

\* the athlete rows detectPlayerMoments walks
Athletes(s) == IF s.hasPlayerBlock THEN s.athletes ELSE <<>>

\* <<seasonKey, name, points>> of every athlete row of a game
RECURSIVE RowFacts(_, _, _)
RowFacts(rows, labels, key) ==
  IF rows = <<>> THEN <<>>
  ELSE (IF Head(rows) = Null THEN <<>>
        ELSE <<<<key, RowStats(Head(rows), labels).name,
                 RowStats(Head(rows), labels).points>>>>)
       \o RowFacts(Tail(rows), labels, key)

\* a handler that lets the error escape to main().catch
CaughtRethrows(outcome) ==
  /\ pc' = "failed"
  /\ lastOutcome' = outcome

\* the game ends in the catch block of lines 460-462
Caught(outcome) ==
  /\ pc' = "gameSleep"
  /\ lastOutcome' = outcome

\* lines 439-452: fetch the summary, resolve the context, check the date
FetchGame ==
  /\ pc = "fetch"
  /\ i <= Len(orderedIds)
  /\ RemoteCall
  /\ fetchLog' = Append(fetchLog, orderedIds[i])
  /\ storeAtGameStart' = runningAverages
  /\ rowTrace' = {}
  /\ \/ /\ Caught("fetchFailed")         \* fetchJson threw after its retries
        /\ UNCHANGED <<summary, context, seasonKey, events, rowIdx, phase, i>>
     \/ \E s \in Summaries :
          LET ctx == collectPacersTeamContext(s)
          IN  /\ summary' = s
              /\ context' = ctx
              /\ IF ctx = Null
                 THEN /\ lastOutcome' = "noContext"     \* continue
                      /\ i' = i + 1
                      /\ pc' = "fetch"
                      /\ UNCHANGED <<seasonKey, events, rowIdx, phase>>
                 ELSE IF DateRejected(s)
                 THEN /\ lastOutcome' = "badDate"       \* continue
                      /\ i' = i + 1
                      /\ pc' = "fetch"
                      /\ UNCHANGED <<seasonKey, events, rowIdx, phase>>
                 ELSE /\ lastOutcome' = "running"
                      /\ seasonKey' = seasonLabelFromDate(s.date)
                      /\ events' = <<>>
                      /\ rowIdx' = 1
                      /\ phase' = "read"
                      /\ pc' = "players"
                      /\ i' = i
  /\ UNCHANGED <<season, typeIdx, allIds, orderedIds, runningAverages, collected,
                 avg, finalEntries, written, warned, exitCode, unitLog, unitFailed,
                 returned, processed,
                 curateCount>>
  /\ UNCHANGED frame

\* lines 215-231: the figures of the row and the read of its average;
\* row.athlete raises a TypeError on a null row
ReadRow ==
  /\ pc = "players"
  /\ rowIdx <= Len(Athletes(summary))
  /\ phase = "read"
  /\ LET row == Athletes(summary)[rowIdx]
     IN  IF row = Null
         THEN /\ Caught("threw")
              /\ UNCHANGED <<avg, phase, rowTrace>>
         ELSE \E st \in {RowStats(row, summary.labels)} :
                  /\ avg' = ReadAverage(runningAverages, seasonKey, st.name, st.points)
                  /\ phase' = "explosion"
                  /\ rowTrace' = {"read"}
                  /\ UNCHANGED <<pc, lastOutcome>>
  /\ UNCHANGED <<season, typeIdx, allIds, orderedIds, i, runningAverages, collected,
                 summary, context, seasonKey, events, rowIdx, finalEntries, written,
                 warned, exitCode, pacing, unpacedCall, fetchLog, unitLog, unitFailed,
                 returned,
                 storeAtGameStart, processed, curateCount>>
  /\ UNCHANGED frame

\* lines 233-245
EvalExplosion ==
  /\ pc = "players"
  /\ phase = "explosion"
  /\ \E st \in {RowStats(Athletes(summary)[rowIdx], summary.labels)} :
       \E randomWhy \in {ExplosionWhy(st, avg)},
          statLine \in {PlayerStatLine(st.points, st.rebounds, st.assists)} :
         events' = IF randomWhy # ""
                   THEN Append(events, createBaseEntry(context, summary, st.player,
                                          statLine, "RANDOM_EXPLOSION", randomWhy))
                   ELSE events
  /\ phase' = "chaos"
  /\ rowTrace' = rowTrace \cup {"explosion"}
  /\ UNCHANGED <<pc, season, typeIdx, allIds, orderedIds, i, runningAverages,
                 collected, summary, context, seasonKey, rowIdx, avg, finalEntries,
                 written, warned, exitCode, pacing, unpacedCall, fetchLog, unitLog,
                 unitFailed, returned,
                 storeAtGameStart, lastOutcome, processed, curateCount>>
  /\ UNCHANGED frame

\* lines 247-262
EvalChaos ==
  /\ pc = "players"
  /\ phase = "chaos"
  /\ \E st \in {RowStats(Athletes(summary)[rowIdx], summary.labels)} :
       \E chaosWhy \in {ChaosWhy(st)},
          statLine \in {PlayerStatLine(st.points, st.rebounds, st.assists)} :
         events' = IF chaosWhy # ""
                   THEN Append(events, createBaseEntry(context, summary, st.player,
                                          statLine, "CHAOS", chaosWhy))
                   ELSE events
  /\ phase' = "record"
  /\ rowTrace' = rowTrace \cup {"chaos"}
  /\ UNCHANGED <<pc, season, typeIdx, allIds, orderedIds, i, runningAverages,
                 collected, summary, context, seasonKey, rowIdx, avg, finalEntries,
                 written, warned, exitCode, pacing, unpacedCall, fetchLog, unitLog,
                 unitFailed, returned,
                 storeAtGameStart, lastOutcome, processed, curateCount>>
  /\ UNCHANGED frame

\* lines 264-267
RecordRow ==
  /\ pc = "players"
  /\ phase = "record"
  /\ \E st \in {RowStats(Athletes(summary)[rowIdx], summary.labels)} :
       runningAverages' =
           RecordGame(runningAverages, AvgKey(seasonKey, st.name), avg, st.points)
  /\ rowIdx' = rowIdx + 1
  /\ phase' = "read"
  /\ rowTrace' = rowTrace \cup {"record"}
  /\ UNCHANGED <<pc, season, typeIdx, allIds, orderedIds, i, collected, summary,
                 context, seasonKey, events, avg, finalEntries, written, warned,
                 exitCode, pacing, unpacedCall, fetchLog, unitLog, unitFailed, returned,
                 storeAtGameStart,
                 lastOutcome, processed, curateCount>>
  /\ UNCHANGED frame

\* line 270 and line 453: the events are returned and pushed
PlayersReturn ==
  /\ pc = "players"
  /\ phase = "read"
  /\ rowIdx > Len(Athletes(summary))
  /\ collected' = collected \o events
  /\ pc' = "team"
  /\ UNCHANGED <<season, typeIdx, allIds, orderedIds, i, runningAverages, summary,
                 context, seasonKey, events, rowIdx, phase, avg, finalEntries,
                 written, warned, exitCode, pacing, unpacedCall, fetchLog, unitLog,
                 unitFailed, returned,
                 storeAtGameStart, lastOutcome, processed, rowTrace, curateCount>>
  /\ UNCHANGED frame

\* line 454
TeamStep ==
  /\ pc = "team"
  /\ IF detectTeamWeirdnessThrows(summary, context)
     THEN Caught("threw") /\ UNCHANGED collected
     ELSE /\ collected' = collected \o detectTeamWeirdness(summary, context)
          /\ pc' = "trauma"
          /\ UNCHANGED lastOutcome
  /\ UNCHANGED <<season, typeIdx, allIds, orderedIds, i, runningAverages, summary,
                 context, seasonKey, events, rowIdx, phase, avg, finalEntries,
                 written, warned, exitCode, pacing, unpacedCall, fetchLog, unitLog,
                 unitFailed, returned,
                 storeAtGameStart, processed, rowTrace, curateCount>>
  /\ UNCHANGED frame

\* line 455 and the end of the try block
TraumaStep ==
  /\ pc = "trauma"
  /\ IF detectTraumaThrows(summary, context)
     THEN Caught("threw") /\ UNCHANGED <<collected, processed>>
     ELSE /\ collected' = collected \o detectTrauma(summary, context)
          /\ processed' = processed \o RowFacts(Athletes(summary), summary.labels, seasonKey)
          /\ pc' = "gameSleep"
          /\ lastOutcome' = "ok"
  /\ UNCHANGED <<season, typeIdx, allIds, orderedIds, i, runningAverages, summary,
                 context, seasonKey, events, rowIdx, phase, avg, finalEntries,
                 written, warned, exitCode, pacing, unpacedCall, fetchLog, unitLog,
                 unitFailed, returned,
                 storeAtGameStart, rowTrace, curateCount>>
  /\ UNCHANGED frame

\* line 463 and the loop increment
GameSleep ==
  /\ pc = "gameSleep"
  /\ PacingSleep
  /\ i' = i + 1
  /\ pc' = "fetch"
  /\ UNCHANGED <<season, typeIdx, allIds, orderedIds, runningAverages, collected,
                 summary, context, seasonKey, events, rowIdx, phase, avg,
                 finalEntries, written, warned, exitCode, unpacedCall, fetchLog,
                 unitLog, unitFailed, returned, storeAtGameStart, lastOutcome, processed,
                 rowTrace,
                 curateCount>>
  /\ UNCHANGED frame

\* ------------------------------------------------ curator, write, report
\* lines 466-475
CurateStep ==
  /\ pc = "fetch"
  /\ i > Len(orderedIds)
  /\ finalEntries' = Curate(collected)
  /\ curateCount' = curateCount + 1
  /\ pc' = "write"
  /\ UNCHANGED <<season, typeIdx, allIds, orderedIds, i, runningAverages, collected,
                 summary, context, seasonKey, events, rowIdx, phase, avg, written,
                 warned, exitCode, pacing, unpacedCall, fetchLog, unitLog, unitFailed,
                 returned,
                 storeAtGameStart, lastOutcome, processed, rowTrace>>
  /\ UNCHANGED frame

\* lines 477-478; a failure reaches main().catch of lines 488-491
WriteCorpus ==
  /\ pc = "write"
  /\ \/ written' = "ok" /\ pc' = "report" /\ UNCHANGED exitCode
     \/ written' = "failed" /\ pc' = "failed" /\ exitCode' = 1
  /\ UNCHANGED <<season, typeIdx, allIds, orderedIds, i, runningAverages, collected,
                 summary, context, seasonKey, events, rowIdx, phase, avg,
                 finalEntries, warned, pacing, unpacedCall, fetchLog, unitLog, unitFailed,
                 returned,
                 storeAtGameStart, lastOutcome, processed, rowTrace, curateCount>>
  /\ UNCHANGED frame

\* a run that treats a small corpus as a failure
ReportFailsWhenSmall ==
  /\ pc = "report"
  /\ warned' = (Len(finalEntries) < MinCorpus)
  /\ exitCode' = IF Len(finalEntries) < MinCorpus THEN 1 ELSE 0
  /\ pc' = "done"
  /\ UNCHANGED <<season, typeIdx, allIds, orderedIds, i, runningAverages, collected,
                 summary, context, seasonKey, events, rowIdx, phase, avg,
                 finalEntries, written, pacing, unpacedCall, fetchLog, unitLog,
                 unitFailed, returned, storeAtGameStart, lastOutcome, processed,
                 rowTrace, curateCount, frame>>

\* lines 480-485
Report ==
  /\ pc = "report"
  /\ warned' = (Len(finalEntries) < MinCorpus)
  /\ exitCode' = 0
  /\ pc' = "done"
  /\ UNCHANGED <<season, typeIdx, allIds, orderedIds, i, runningAverages, collected,
                 summary, context, seasonKey, events, rowIdx, phase, avg,
                 finalEntries, written, pacing, unpacedCall, fetchLog, unitLog, unitFailed,
                 returned,
                 storeAtGameStart, lastOutcome, processed, rowTrace, curateCount>>
  /\ UNCHANGED frame

Next ==
  \/ EnumerateSeason
  \/ SeasonSleep
  \/ OrderIds
  \/ FetchGame
  \/ ReadRow
  \/ EvalExplosion
  \/ EvalChaos
  \/ RecordRow
  \/ PlayersReturn
  \/ TeamStep
  \/ TraumaStep
  \/ GameSleep
  \/ CurateStep
  \/ WriteCorpus
  \/ Report

Spec == Init /\ [][Next]_vars

\* main is one sequential task: whenever a step is possible one is taken
LiveSpec == Spec /\ WF_vars(Next)

\* ================================================= the functions as wholes
\* lines 233-245: the events the explosion group pushes for one row
ExplosionEvents(ctx, s, st, average) ==
  LET randomWhy == ExplosionWhy(st, average)
      statLine  == PlayerStatLine(st.points, st.rebounds, st.assists)
  IN  IF randomWhy # ""
      THEN <<createBaseEntry(ctx, s, st.player, statLine, "RANDOM_EXPLOSION", randomWhy)>>
      ELSE <<>>

\* lines 247-262: the events the chaos group pushes for one row
ChaosEvents(ctx, s, st) ==
  LET chaosWhy == ChaosWhy(st)
      statLine == PlayerStatLine(st.points, st.rebounds, st.assists)
  IN  IF chaosWhy # ""
      THEN <<createBaseEntry(ctx, s, st.player, statLine, "CHAOS", chaosWhy)>>
      ELSE <<>>

\* lines 214-268: the row loop; a null row throws, and the store keeps what
\* the rows before it wrote
RECURSIVE PlayersFrom(_, _, _, _, _, _)
PlayersFrom(rows, s, ctx, store, key, out) ==
  IF rows = <<>> THEN [threw |-> FALSE, events |-> out, store |-> store]
  ELSE IF Head(rows) = Null THEN [threw |-> TRUE, events |-> out, store |-> store]
  ELSE CHOOSE result \in
         {PlayersFrom(Tail(rows), s, ctx,
                      RecordGame(store, AvgKey(key, st.name),
                                 ReadAverage(store, key, st.name, st.points), st.points),
                      key,
                      out \o ExplosionEvents(ctx, s, st,
                                             ReadAverage(store, key, st.name, st.points))
                          \o ChaosEvents(ctx, s, st)) :
            st \in {RowStats(Head(rows), s.labels)}} : TRUE

\* detectPlayerMoments: the events, the store it leaves, and whether it threw
detectPlayerMoments(s, ctx, store, key) ==
  PlayersFrom(Athletes(s), s, ctx, store, key, <<>>)

\* ============================================== the classifiers on their own
\* One classifier called once on a game drawn from a set of games that vary
\* every field its rules read.
GameClock(m, sec, tenths) == [kind |-> "clock", min |-> m, sec |-> sec, tenths |-> tenths]

Play(text, clock) == [kind |-> "play", text |-> text, clock |-> clock, textClock |-> Null]

Series(summaryText, title) ==
  [kind |-> "series", type |-> "playoff", summary |-> summaryText, title |-> title]

ProbeSeries ==
  { <<>>,
    <<Series("NY wins series 4-3", "Eastern Conference Finals")>>,
    <<Series("IND wins series 4-3", "NBA Finals")>>,
    <<Series("Series tied 3-3", "East 1st Round")>> }

ProbeSamples ==
  { <<>>,
    <<Sample(10, 80, 102), Sample(90, 150, 140)>>,
    <<Sample(100, 30, 5)>>,
    <<Sample(60, 20, 15)>>,
    <<Null>> }

ProbePlays ==
  { <<>>,
    <<Play("Smith makes 25-foot three point jumper", GameClock(0, 2, 0))>>,
    <<Play("Smith makes 25-foot three point jumper", GameClock(0, 30, 0))>>,
    <<Play("Pacers hit the free throw", GameClock(0, 1, 0))>>,
    <<Null>> }

ProbeDetails == {"Final", "Final - Game 7", "Final/OT"}

ProbeScores == {<<140, 150>>, <<100, 102>>, <<110, 100>>}

ProbeGame(won, side, opp, scores, seasonType, detail, series, samples, plays, fg) ==
  [GameWin EXCEPT
     !.competitors = <<Competitor("11", "IND", side, scores[1], won),
                       Competitor("18", opp, IF side = "home" THEN "away" ELSE "home",
                                  scores[2], ~won)>>,
     !.seasonType = seasonType, !.detail = detail, !.series = series,
     !.winprobability = samples, !.plays = plays, !.teamStats = <<FgPct(fg)>>]

TraumaGames ==
  {ProbeGame(won, side, opp, <<100, 102>>, seasonType, detail, series, samples, plays, 48) :
     won \in BOOLEAN, side \in {"home", "away"}, opp \in {"NY", "BOS"},
     seasonType \in {2, 3}, detail \in ProbeDetails, series \in ProbeSeries,
     samples \in ProbeSamples, plays \in ProbePlays}

TeamGames ==
  {ProbeGame(won, side, "BOS", scores, 2, detail, <<>>, samples, <<>>, fg) :
     won \in BOOLEAN, side \in {"home", "away"}, scores \in ProbeScores,
     detail \in ProbeDetails, samples \in ProbeSamples, fg \in {30, 48}}

\* athlete rows: points around every threshold, the three values of the
\* starter flag, minutes missing, empty, zero and on both sides of 25, and
\* the chaos figures
ProbeRows ==
  {[kind |-> "row", displayName |-> "Miller", id |-> "7", starter |-> starter,
    stats |-> <<min, Num(pts), Num(c[1]), Num(c[2]), Num(c[3]), Num(c[4]), Num(c[5])>>] :
     starter \in {"true", "false", "missing"},
     min \in {Null, [kind |-> "empty"], Clock(0, 0), Clock(20, 0), Clock(24, 59),
              Clock(25, 0), Clock(30, 0)},
     pts \in {12, 25, 32, 35, 40, 45, 50},
     c \in {<<3, 4, 2, 1, 0>>, <<10, 10, 7, 0, 0>>, <<0, 15, 0, 0, 0>>, <<0, 0, 10, 6, 7>>}}

\* the record of the player before the game
ProbeAverages ==
  {NoAvg} \cup {[games |-> g, points |-> g * a] : g \in {7, 8, 9}, a \in {5, 11, 12}}

StoreWith(key, average) ==
  IF average = NoAvg THEN EmptyStore ELSE [k \in {key} |-> average]

CallFrame(fn, s) == [fn |-> fn, summary |-> s, at |-> "call", value |-> <<>>]

ClassifyInit ==
  /\ MainInit
  /\ \/ frame \in {CallFrame("detectTrauma", s) : s \in TraumaGames}
     \/ frame \in {CallFrame("detectTeamWeirdness", s) : s \in TeamGames}
     \/ frame \in {[fn |-> "detectPlayerMoments",
                     summary |-> [GameWin EXCEPT !.athletes = <<row>>],
                     store |-> StoreWith(AvgKey(seasonLabelFromDate(GameWin.date),
                                                "Miller"), average),
                     average |-> average, at |-> "call", value |-> <<>>] :
                      row \in ProbeRows, average \in ProbeAverages}

\* lines 322-382
TraumaCall ==
  /\ frame.fn = "detectTrauma" /\ frame.at = "call"
  /\ LET ctx == collectPacersTeamContext(frame.summary)
     IN  frame' = IF detectTraumaThrows(frame.summary, ctx)
                  THEN [frame EXCEPT !.at = "threw"]
                  ELSE [frame EXCEPT !.at = "returned",
                                     !.value = detectTrauma(frame.summary, ctx)]
  /\ UNCHANGED mainVars

\* lines 292-320
TeamCall ==
  /\ frame.fn = "detectTeamWeirdness" /\ frame.at = "call"
  /\ LET ctx == collectPacersTeamContext(frame.summary)
     IN  frame' = IF detectTeamWeirdnessThrows(frame.summary, ctx)
                  THEN [frame EXCEPT !.at = "threw"]
                  ELSE [frame EXCEPT !.at = "returned",
                                     !.value = detectTeamWeirdness(frame.summary, ctx)]
  /\ UNCHANGED mainVars

\* lines 202-271
PlayersCall ==
  /\ frame.fn = "detectPlayerMoments" /\ frame.at = "call"
  /\ LET ctx   == collectPacersTeamContext(frame.summary)
         whole == detectPlayerMoments(frame.summary, ctx, frame.store,
                                      seasonLabelFromDate(frame.summary.date))
     IN  frame' = IF whole.threw
                  THEN [frame EXCEPT !.at = "threw", !.store = whole.store]
                  ELSE [frame EXCEPT !.at = "returned", !.value = whole.events,
                                     !.store = whole.store]
  /\ UNCHANGED mainVars

ClassifyNext ==
  \/ TraumaCall
  \/ TeamCall
  \/ PlayersCall

ClassifySpec == ClassifyInit /\ [][ClassifyNext]_vars

\* ========================================= one player through his seasons
\* detectPlayerMoments called game after game with one store, on box scores
\* whose only row is a starter.  The frame keeps the store and, apart from
\* it, what was played before the last game in its season label.
SeasonDates == {19951105, 19961105}

SeasonRows ==
  {MkRow("Miller", "true", min, pts, 3, 4, 2, 1, 0) :
     min \in {Clock(20, 0), Clock(30, 0)}, pts \in {5, 40}}

NoGames == [label \in {seasonLabelFromDate(d) : d \in SeasonDates} |->
              [games |-> 0, points |-> 0]]

SeasonInit ==
  /\ MainInit
  /\ frame = [fn |-> "season", at |-> "idle", store |-> EmptyStore, total |-> 0,
              played |-> NoGames, label |-> "", row |-> Null, before |-> NoAvg,
              value |-> <<>>]

\* lines 202-271, once
SeasonGame ==
  /\ frame.fn = "season"
  /\ frame.total < MaxSeasonGames
  /\ \E date \in SeasonDates, row \in SeasonRows :
       LET s     == [GameWin EXCEPT !.date = date, !.athletes = <<row>>]
           label == seasonLabelFromDate(date)
           whole == detectPlayerMoments(s, collectPacersTeamContext(s), frame.store, label)
       IN  frame' = [frame EXCEPT
                       !.at = "played", !.store = whole.store, !.total = @ + 1,
                       !.label = label, !.row = row,
                       !.before = frame.played[label],
                       !.played[label] =
                          [games |-> @.games + 1, points |-> @.points + row.stats[2].n],
                       !.value = whole.events]
  /\ UNCHANGED mainVars

SeasonNext == SeasonGame

SeasonSpec == SeasonInit /\ [][SeasonNext]_vars

\* =================================================== main as one function
\* lines 439-462 for one id: what the game leaves in the store and in
\* collected.  served is the summary the fetch returns, Null when it fails.
ProcessGame(served, store, acc) ==
  IF served = Null THEN [store |-> store, collected |-> acc]
  ELSE LET ctx == collectPacersTeamContext(served)
       IN  IF ctx = Null \/ DateRejected(served)
           THEN [store |-> store, collected |-> acc]
           ELSE CHOOSE result \in
                  {IF players.threw
                     THEN [store |-> players.store, collected |-> acc]
                   ELSE IF detectTeamWeirdnessThrows(served, ctx)
                     THEN [store |-> players.store, collected |-> acc \o players.events]
                   ELSE IF detectTraumaThrows(served, ctx)
                     THEN [store |-> players.store,
                           collected |-> acc \o players.events
                                          \o detectTeamWeirdness(served, ctx)]
                   ELSE [store |-> players.store,
                         collected |-> acc \o players.events
                                        \o detectTeamWeirdness(served, ctx)
                                        \o detectTrauma(served, ctx)] :
                     players \in {detectPlayerMoments(served, ctx, store,
                                                     seasonLabelFromDate(served.date))}} :
                  TRUE

\* lines 438-464: the game loop over the ordered ids
RECURSIVE GamesFrom(_, _, _)
GamesFrom(ids, served, state) ==
  IF ids = <<>> THEN state
  ELSE CHOOSE result \in
         {GamesFrom(Tail(ids), served, next) :
            next \in {ProcessGame(served[Head(ids)], state.store, state.collected)}} : TRUE

\* lines 420-432: the ids of all the schedule calls, gathered into the Set
RECURSIVE Gather(_, _)
Gather(calls, set) ==
  IF calls = <<>> THEN set
  ELSE Gather(Tail(calls), SetAddAll(set, FilterIds(Head(calls))))

\* lines 418-475: the corpus main builds from what the calls return
RunMain(calls, served) ==
  Curate(GamesFrom(SortIds(Gather(calls, <<>>)), served,
                   [store |-> EmptyStore, collected |-> <<>>]).collected)

\* a second game on the day of GameWin
GameSameDay ==
  [GameWin EXCEPT
     !.competitors = <<Competitor("11", "IND", "home", 104, TRUE),
                       Competitor("18", "NY", "away", 99, FALSE)>>,
     !.athletes = <<RowMiller12>>]

DetOutcomes == {GameWin, GameSameDay, GameNullRow, Null}

\* what one schedule call returns
DetLists == UNION {[1..n -> GameIds] : n \in 0..MaxEvents}

\* the ids of a set, each once, largest first
RECURSIVE Descending(_)
Descending(set) ==
  IF set = {} THEN <<>>
  ELSE LET top == CHOOSE x \in set : \A y \in set : y <= x
       IN  <<top>> \o Descending(set \ {top})

\* Two runs of main over the same ids and the same summaries: one in which
\* two schedule calls return the ids in any order and any number of times,
\* and one in which a single call returns each id once.
DetInit ==
  /\ MainInit
  /\ frame \in {[fn |-> "main", at |-> "start", calls |-> <<a, b>>, served |-> served,
                  first |-> <<>>, second |-> <<>>] :
                   a \in DetLists, b \in DetLists, served \in [GameIds -> DetOutcomes]}

RunAsReturned ==
  /\ frame.fn = "main" /\ frame.at = "start"
  /\ frame' = [frame EXCEPT !.at = "first", !.first = RunMain(frame.calls, frame.served)]
  /\ UNCHANGED mainVars

RunOnceEach ==
  /\ frame.fn = "main" /\ frame.at = "first"
  /\ frame' = [frame EXCEPT
                 !.at = "both",
                 !.second = RunMain(<<Descending(Range(frame.calls[1])
                                                  \cup Range(frame.calls[2]))>>,
                                     frame.served)]
  /\ UNCHANGED mainVars

DetNext ==
  \/ RunAsReturned
  \/ RunOnceEach

DetSpec == DetInit /\ [][DetNext]_vars

\* ================================================= the curator on its own
\* what lines 451-462 collect for one game, the store empty
EntriesOf(served) ==
  GamesFrom(<<1>>, <<served>>, [store |-> EmptyStore, collected |-> <<>>]).collected

\* a win in which one starter scores 61
GameSixtyOne ==
  [GameWin EXCEPT !.athletes = <<MkRow("Miller", "true", Clock(40, 0), 61, 3, 4, 2, 1, 0)>>]

\* a regular-season loss to 150 points, no box score rows, no samples
GameShootout(date, score) ==
  [GameBlownLead EXCEPT
     !.date = date, !.winprobability = <<>>, !.athletes = <<>>,
     !.competitors = <<Competitor("18", "NY", "home", 150, TRUE),
                       Competitor("11", "IND", "away", score, FALSE)>>]

\* the k-th of the playoff eliminations, on a day of its own; the first
\* with no score reported for the team (Number(score || 0) is 0)
GameEliminated(k) ==
  [GameSeven EXCEPT
     !.date = 19980500 + k, !.winprobability = <<>>, !.athletes = <<>>,
     !.competitors = <<Competitor("18", "NY", "home", 102, TRUE),
                       Competitor("11", "IND", "away", IF k = 1 THEN 0 ELSE 100, FALSE)>>]

CapGames ==
  {GameSixtyOne, GameShootout(19960110, 140), GameShootout(19970510, 120)}
  \cup {GameEliminated(k) : k \in 1..(CorpusCap + 1)}

\* the entries of these games: an explosion on the first date, team entries
\* of one score on the next two, and one trauma entry more than the cap
CapEntries == UNION {Range(EntriesOf(game)) : game \in CapGames}

\* collected, in any order and with repeats, up to one entry over the cap
CapLists == UNION {[1..n -> CapEntries] : n \in 0..(CorpusCap + 1)}

CapInit ==
  /\ MainInit
  /\ frame \in {[fn |-> "curate", at |-> "call", collected |-> list, value |-> <<>>] :
                   list \in CapLists}

\* lines 466-475
CurateCall ==
  /\ frame.fn = "curate" /\ frame.at = "call"
  /\ frame' = [frame EXCEPT !.at = "returned", !.value = Curate(frame.collected)]
  /\ UNCHANGED mainVars

CapNext == CurateCall

CapSpec == CapInit /\ [][CapNext]_vars

\* ================================================ the peak lead on its own
\* samples on both sides of an implied lead of 20 (98 and 99 percent, and
\* their complements) and of a score differential of 20
LeadSamples ==
  {Sample(pct, score[1], score[2]) :
     pct \in {1, 2, 50, 98, 99},
     score \in {<<0, 0>>, <<30, 11>>, <<25, 5>>, <<5, 25>>}}

\* regular-season games decided 100-102, no series, no plays: of the team
\* and trauma rules only those on the peak lead can match
LeadGames ==
  {ProbeGame(won, side, "BOS", <<100, 102>>, 2, "Final", <<>>, samples, <<>>, 48) :
     won \in BOOLEAN, side \in {"home", "away"},
     samples \in UNION {[1..n -> LeadSamples] : n \in 0..MaxSamples}}

LeadInit ==
  /\ MainInit
  /\ frame \in {[fn |-> "getPacersPeakLead", at |-> "call", summary |-> s, peak |-> 0,
                  team |-> <<>>, trauma |-> <<>>] : s \in LeadGames}

\* lines 183-200
PeakCall ==
  /\ frame.fn = "getPacersPeakLead" /\ frame.at = "call"
  /\ frame' = [frame EXCEPT
                 !.at = "peak",
                 !.peak = getPacersPeakLead(frame.summary,
                                            collectPacersTeamContext(frame.summary))]
  /\ UNCHANGED mainVars

\* lines 292-320 on the same game
TeamLeadCall ==
  /\ frame.fn = "getPacersPeakLead" /\ frame.at = "peak"
  /\ frame' = [frame EXCEPT
                 !.at = "team",
                 !.team = detectTeamWeirdness(frame.summary,
                                              collectPacersTeamContext(frame.summary))]
  /\ UNCHANGED mainVars

\* lines 322-382 on the same game
TraumaLeadCall ==
  /\ frame.fn = "getPacersPeakLead" /\ frame.at = "team"
  /\ frame' = [frame EXCEPT
                 !.at = "trauma",
                 !.trauma = detectTrauma(frame.summary,
                                         collectPacersTeamContext(frame.summary))]
  /\ UNCHANGED mainVars

LeadNext ==
  \/ PeakCall
  \/ TeamLeadCall
  \/ TraumaLeadCall

LeadSpec == LeadInit /\ [][LeadNext]_vars

\* ================================================== the RememberThisCard
\* The root element of one card and the refreshes awaiting fetchEntry.
\* content is what root.innerHTML shows; button is the element matching
\* [data-remember-refresh] inside root, of which there is one only while an
\* entry is shown.
NoButton == [present |-> FALSE, disabled |-> FALSE, listeners |-> 0]

\* the button of the markup renderEntry writes: enabled, no listener yet
FreshButton == [present |-> TRUE, disabled |-> FALSE, listeners |-> 0]

\* what fetchEntry can return as an entry
WidgetEntries == Range(EntriesOf(GameWin)) \cup Range(EntriesOf(GameSameDay))

\* fetchEntry settles with an entry, with null (nothing to choose from) or
\* by throwing
FetchEntryOutcomes ==
  {[kind |-> "entry", entry |-> e] : e \in WidgetEntries}
  \cup {[kind |-> "none"], [kind |-> "error"]}

WidgetInit ==
  /\ MainInit
  /\ frame = [fn |-> "RememberThisCard", at |-> "created", content |-> "loading",
              button |-> NoButton, inflight |-> 0, started |-> 0, shown |-> <<>>]

\* a refresh that leaves the button as it is while it waits
RefreshStartLeavesButton(card) ==
  [card EXCEPT !.inflight = @ + 1, !.started = @ + 1]

\* lines 249-261, up to the await: the button found in root is disabled
RefreshStart(card) ==
  [card EXCEPT
     !.button = IF card.button.present THEN [@ EXCEPT !.disabled = TRUE] ELSE @,
     !.inflight = @ + 1,
     !.started = @ + 1]

\* line 275: the call of refresh() in RememberThisCard
InitialCall ==
  /\ frame.fn = "RememberThisCard" /\ frame.at = "created"
  /\ frame' = [RefreshStart(frame) EXCEPT !.at = "returned"]
  /\ UNCHANGED mainVars

\* a click runs every listener of the button, one after the other
RECURSIVE RunListeners(_, _)
RunListeners(card, n) ==
  IF n = 0 THEN card ELSE RunListeners(RefreshStart(card), n - 1)

\* A click on the button; a disabled button dispatches no click event.
Click ==
  /\ frame.fn = "RememberThisCard" /\ frame.at = "returned"
  /\ frame.button.present /\ ~frame.button.disabled
  /\ frame.started < MaxRefreshes
  /\ frame' = RunListeners(frame, frame.button.listeners)
  /\ UNCHANGED mainVars

\* lines 261-272: fetchEntry settles for one waiting refresh; renderEntry
\* replaces the markup of root (lines 208-240), or the catch writes the
\* message; the button then found in root is enabled and given the
\* listener (the same function is registered once per element).
FetchSettles ==
  /\ frame.fn = "RememberThisCard" /\ frame.inflight > 0
  /\ \E outcome \in FetchEntryOutcomes :
       LET rendered == IF outcome.kind = "entry" THEN FreshButton ELSE NoButton
       IN  frame' = [frame EXCEPT
                       !.content = outcome.kind,
                       !.button = IF rendered.present
                                  THEN [rendered EXCEPT !.disabled = FALSE,
                                                        !.listeners = 1]
                                  ELSE rendered,
                       !.inflight = @ - 1,
                       !.shown = IF outcome.kind = "entry"
                                 THEN Append(@, outcome.entry) ELSE @]
  /\ UNCHANGED mainVars

WidgetNext ==
  \/ InitialCall
  \/ Click
  \/ FetchSettles

WidgetSpec == WidgetInit /\ [][WidgetNext]_vars

\* ============================================================ fetchJson
\* fetchJson called on its own.  The frame holds its parameter retries, its
\* locals i and lastError, the position at ("try", "sleep", "returned",
\* "threw"), what it returned or threw, and the observation of the call:
\* attempts (the outcome of each fetch) and waits (the sleeps, in ms).
Payloads == {[kind |-> "payload", body |-> body] : body \in {"schedule", "summary"}}

\* the ways one attempt fails: fetch rejects, the status is not ok, or the
\* body is not JSON; every one is caught by the catch of lines 41-44
FailureKinds == {"network", "status", "json"}

FetchError(kind, attempt) == [kind |-> "error", what |-> kind, attempt |-> attempt]

\* lines 27-28
FetchFrame(retries) ==
  [fn |-> "fetchJson", retries |-> retries, i |-> 0, lastError |-> Null,
   at |-> "try", value |-> Null, thrown |-> Null, attempts |-> <<>>, waits |-> <<>>]

FetchInit ==
  /\ MainInit
  /\ frame \in {FetchFrame(retries) : retries \in 1..MaxRetries}

\* lines 29-42: one pass of the loop body up to the return or the catch
FetchAttempt ==
  /\ frame.fn = "fetchJson" /\ frame.at = "try"
  /\ frame.i < frame.retries
  /\ \/ \E payload \in Payloads :
          frame' = [frame EXCEPT
                      !.at = "returned", !.value = payload,
                      !.attempts = Append(@, [ok |-> TRUE, payload |-> payload])]
     \/ \E kind \in FailureKinds :
          LET error == FetchError(kind, frame.i + 1)
          IN  frame' = [frame EXCEPT
                          !.at = "sleep", !.lastError = error,
                          !.attempts = Append(@, [ok |-> FALSE, error |-> error])]
  /\ UNCHANGED mainVars

\* a backoff of the same length after every failure
FetchBackoffConstant ==
  /\ frame.fn = "fetchJson" /\ frame.at = "sleep"
  /\ frame' = [frame EXCEPT !.at = "try", !.i = @ + 1, !.waits = Append(@, 120)]
  /\ UNCHANGED mainVars

\* line 43 and the loop increment of line 29
FetchBackoff ==
  /\ frame.fn = "fetchJson" /\ frame.at = "sleep"
  /\ frame' = [frame EXCEPT
                 !.at = "try", !.i = @ + 1,
                 !.waits = Append(@, (frame.i + 1) * 120)]
  /\ UNCHANGED mainVars

\* line 46
FetchThrow ==
  /\ frame.fn = "fetchJson" /\ frame.at = "try"
  /\ frame.i >= frame.retries
  /\ frame' = [frame EXCEPT !.at = "threw", !.thrown = frame.lastError]
  /\ UNCHANGED mainVars

FetchNext ==
  \/ FetchAttempt
  \/ FetchBackoff
  \/ FetchThrow

FetchSpec == FetchInit /\ [][FetchNext]_vars

\* every awaited fetch, body read and timer settles
FetchLiveSpec == FetchSpec /\ WF_vars(FetchNext)

TypeOK ==
  /\ pc \in {"seasons", "seasonSleep", "order", "fetch", "players", "team", "trauma",
             "gameSleep", "write", "report", "done", "failed"}
  /\ phase \in {"read", "explosion", "chaos", "record"}
  /\ written \in {"no", "ok", "failed"}

\* ======================================================== properties
AfterCurate == pc \in {"write", "report", "done", "failed"}

BetweenGames == pc \in {"fetch", "gameSleep", "write", "report", "done", "failed"}

CurrentRowName == RowStats(Athletes(summary)[rowIdx], summary.labels).name

C1_AverageExcludesGame ==
  (pc = "players" /\ phase \in {"explosion", "chaos", "record"})
     => avg = Lookup(storeAtGameStart, AvgKey(seasonKey, CurrentRowName))

WriteAfterRules ==
  runningAverages' # runningAverages =>
    /\ pc = "players" /\ phase = "record"
    /\ {"read", "explosion", "chaos"} \subseteq rowTrace
    /\ "record" \notin rowTrace
    /\ avg = Lookup(runningAverages, AvgKey(seasonKey, CurrentRowName))

C1_WriteAfterRules == [][WriteAfterRules]_vars

\* C1: in detectPlayerMoments the running-average record of a row is written
\* only after the row's pre-game average was read and both rule groups were
\* evaluated with it, so the average the rules of a (season, player, game)
\* see is the one the store held before the game: it never includes the
\* game's own points.
C1_ReadBeforeWrite == []C1_AverageExcludesGame /\ C1_WriteAfterRules

\* a row was recorded for a player who already had games this season
C1_Witness ==
  /\ pc = "players" /\ "record" \in rowTrace
  /\ avg.games > 0 /\ avg.points > 0

\* C2: a game the driver skips (fetch failure, unresolvable context, rejected
\* date, or an exception caught by the per-game handler) leaves the
\* running-average store exactly as it was before that game.
C2_SkippedGameLeavesStore ==
  lastOutcome \in SkipOutcomes => runningAverages = storeAtGameStart

\* the (season, player) facts of the games processed so far, for one key
FactsOf(key) ==
  SelectSeq(processed, LAMBDA f : AvgKey(f[1], f[2]) = key)

RECURSIVE SumPoints(_)
SumPoints(facts) ==
  IF facts = <<>> THEN 0 ELSE Head(facts)[3] + SumPoints(Tail(facts))

KnownKeys ==
  (DOMAIN runningAverages) \cup {AvgKey(processed[k][1], processed[k][2]) : k \in 1..Len(processed)}

\* C3: after every prefix of the traversal and for every (season, player)
\* key, the cumulative points of the store are the sum of that player's
\* points over the games of that season processed so far, and the game count
\* is the number of those games (a key never seen has games = 0, points = 0).
C3_StoreIsSumOfProcessedGames ==
  BetweenGames =>
    \A key \in KnownKeys :
      /\ Lookup(runningAverages, key).points = SumPoints(FactsOf(key))
      /\ Lookup(runningAverages, key).games = Len(FactsOf(key))

IsDateDescending(entries) ==
  \A k \in 1..(Len(entries) - 1) : entries[k].date >= entries[k + 1].date

\* same elements, each as often
SameEntries(a, b) ==
  /\ Len(a) = Len(b)
  /\ \A e \in Range(a) \cup Range(b) :
       Cardinality({k \in 1..Len(a) : a[k] = e}) = Cardinality({k \in 1..Len(b) : b[k] = e})

\* entries of equal date keep the order they have in the candidate list
KeepsTieOrder(out, candidates) ==
  \A k \in 1..Len(out), m \in 1..Len(out) :
    (k < m /\ out[k].date = out[m].date) =>
      \E x \in 1..Len(candidates), y \in 1..Len(candidates) :
        x < y /\ candidates[x] = out[k] /\ candidates[y] = out[m]

\* C4: the final corpus has at most CorpusCap (400) entries, and when the
\* deduplicated candidates are at most that many it is exactly their
\* date-descending sort: nothing dropped, nothing added.
C4_CapAndExactSort ==
  AfterCurate =>
    /\ Len(finalEntries) <= CorpusCap
    /\ Len(dedupeEntries(collected)) <= CorpusCap =>
         /\ SameEntries(finalEntries, dedupeEntries(collected))
         /\ IsDateDescending(finalEntries)
         /\ KeepsTieOrder(finalEntries, dedupeEntries(collected))

\* the under-cap path with a full corpus that the date sort had to reorder
C4_Witness ==
  /\ pc = "done"
  /\ Len(dedupeEntries(collected)) = CorpusCap
  /\ Len(finalEntries) = CorpusCap
  /\ finalEntries # dedupeEntries(collected)

\* C5: on both paths every adjacent pair of the final corpus satisfies
\* date(earlier index) >= date(later index).
C5_FinalIsDateDescending == AfterCurate => IsDateDescending(finalEntries)

\* the over-cap path was taken and the corpus spans several dates
C5_Witness ==
  /\ pc = "done"
  /\ Len(dedupeEntries(collected)) > CorpusCap
  /\ \E k \in 1..(Len(finalEntries) - 1) : finalEntries[k].date > finalEntries[k + 1].date

EntryTuple(e) == <<e.date, e.opponent, e.player, e.category, e.why>>

\* the indices of the first occurrence of each tuple
FirstIndices(entries) ==
  {k \in 1..Len(entries) :
     \A m \in 1..(k - 1) : EntryTuple(entries[m]) # EntryTuple(entries[k])}

RECURSIVE Restrict(_, _, _)
Restrict(entries, keep, k) ==
  IF k > Len(entries) THEN <<>>
  ELSE (IF k \in keep THEN <<entries[k]>> ELSE <<>>) \o Restrict(entries, keep, k + 1)

\* C6: dedupeEntries drops an entry iff an earlier entry has the same
\* (date, opponent, player, category, why) tuple, keeps first occurrences in
\* their order, and so the final corpus holds no two entries with one tuple.
C6_DedupeKeepsFirstOccurrences ==
  /\ dedupeEntries(collected) = Restrict(collected, FirstIndices(collected), 1)
  /\ AfterCurate =>
       \A k \in 1..Len(finalEntries), m \in 1..Len(finalEntries) :
         k # m => EntryTuple(finalEntries[k]) # EntryTuple(finalEntries[m])

\* a duplicate was dropped and entries differing only in why were both kept
C6_Witness ==
  /\ pc = "done"
  /\ Len(dedupeEntries(collected)) < Len(collected)
  /\ \E k \in 1..Len(finalEntries), m \in 1..Len(finalEntries) :
       /\ k # m
       /\ finalEntries[k].why # finalEntries[m].why
       /\ [finalEntries[k] EXCEPT !.why = ""] = [finalEntries[m] EXCEPT !.why = ""]

\* C7: the curator is idempotent: applied to its own output it returns the
\* identical list, entries of equal date in the same order.
C7_CuratorIdempotent == AfterCurate => Curate(finalEntries) = finalEntries

\* a capped corpus in which two entries share a date
C7_Witness ==
  /\ pc = "done"
  /\ Len(dedupeEntries(collected)) > CorpusCap
  /\ \E k \in 1..(Len(finalEntries) - 1) : finalEntries[k].date = finalEntries[k + 1].date

IsStrictlyAscending(ids) == \A k \in 1..(Len(ids) - 1) : ids[k] < ids[k + 1]

C8_Order ==
  /\ IsStrictlyAscending(fetchLog)
  /\ pc \notin {"seasons", "seasonSleep", "order"} =>
       /\ Range(orderedIds) = returned
       /\ Len(orderedIds) = Cardinality(returned)
       /\ fetchLog = SubSeq(orderedIds, 1, Len(fetchLog))
  /\ curateCount = IF AfterCurate THEN 1 ELSE 0
  /\ AfterCurate => fetchLog = orderedIds

StoreKept ==
  pc \in {"fetch", "players", "team", "trauma", "gameSleep"} =>
    \A key \in DOMAIN runningAverages :
      /\ key \in DOMAIN runningAverages'
      /\ runningAverages'[key].games >= runningAverages[key].games

C8_OneStore == [][StoreKept]_vars

\* C8: main gathers the ids of all enumerations into one duplicate-free set,
\* fetches the games in strictly ascending id order, each id once, keeps one
\* store for the whole traversal, and runs the curator once, after the last id.
C8_AscendingTraversal == []C8_Order /\ C8_OneStore

\* ids arrived out of order and repeated, and two games were recorded
C8_Witness ==
  /\ pc = "done"
  /\ Len(fetchLog) >= 2
  /\ allIds # orderedIds
  /\ \E key \in DOMAIN runningAverages : runningAverages[key].games >= 2

IsPrefix(a, b) == Len(a) <= Len(b) /\ a = SubSeq(b, 1, Len(a))

C9_NoAbort ==
  /\ pc = "failed" => written = "failed"
  /\ pc \notin {"seasons", "seasonSleep"} =>
       /\ Len(unitLog) = (CURRENT_YEAR - START_SEASON + 1) * Len(SeasonTypes)
       /\ \A y \in START_SEASON..CURRENT_YEAR, t \in 1..Len(SeasonTypes) :
            \E u \in 1..Len(unitLog) : unitLog[u] = <<y, SeasonTypes[t]>>
  /\ AfterCurate => (Range(fetchLog) = returned /\ finalEntries = Curate(collected))

EntriesKept ==
  pc \in {"fetch", "players", "team", "trauma", "gameSleep"} =>
    IsPrefix(collected, collected')

C9_EntriesKept == [][EntriesKept]_vars

\* C9: a failed season enumeration or game never aborts the run: every
\* season unit and every id is still attempted, and the curator and the write
\* are always reached with the entries of the games that did not fail.
C9_RunAlwaysWrites == []C9_NoAbort /\ C9_EntriesKept /\ <>(written # "no")

\* a schedule call failed, a game raised, the last fetch failed, and the
\* corpus was still written with entries
C9_Witness ==
  /\ pc = "done"
  /\ unitFailed
  /\ lastOutcome \in {"fetchFailed", "threw"}
  /\ Len(fetchLog) >= 2
  /\ finalEntries # <<>>

\* C10: the pacing delay REQUEST_DELAY_MS is applied between every two
\* consecutive remote calls of the driver, whatever the outcome of the
\* earlier call.
C10_PacingBetweenCalls == ~unpacedCall

FetchFailures == {k \in 1..Len(frame.attempts) : ~frame.attempts[k].ok}

FetchBounded ==
  /\ Len(frame.attempts) <= frame.retries
  /\ \A k \in 1..(Len(frame.attempts) - 1) : ~frame.attempts[k].ok
  /\ Len(frame.waits) =
       Cardinality(FetchFailures) - (IF frame.at = "sleep" THEN 1 ELSE 0)
  /\ \A k \in 1..Len(frame.waits) : frame.waits[k] = k * 120
  /\ frame.at = "returned" =>
       /\ frame.attempts[Len(frame.attempts)].ok
       /\ frame.value = frame.attempts[Len(frame.attempts)].payload
  /\ frame.at = "threw" =>
       /\ Len(frame.attempts) = frame.retries
       /\ FetchFailures = 1..frame.retries
       /\ frame.thrown = frame.attempts[frame.retries].error
       /\ Len(frame.waits) = frame.retries

\* C11: fetchJson always terminates: it makes at most retries attempts,
\* returns the payload of the first successful attempt without a further
\* attempt, waits k*120 ms after the k-th failed attempt, and when every
\* attempt fails it raises the error of the last attempt.
C11_FetchJsonBoundedRetry ==
  []FetchBounded /\ <>(frame.at \in {"returned", "threw"})

\* the third attempt succeeded after a failed fetch and a bad status
C11_Witness ==
  /\ frame.fn = "fetchJson" /\ frame.at = "returned"
  /\ Len(frame.attempts) = 3
  /\ frame.waits = <<120, 240>>
  /\ frame.attempts[1].error.what # frame.attempts[2].error.what

\* the summary has no competitor of the team, or none of another team
LacksPairing(s) ==
  \/ \A k \in 1..Len(s.competitors) : s.competitors[k].id # PACERS_TEAM_ID
  \/ \A k \in 1..Len(s.competitors) : s.competitors[k].id = PACERS_TEAM_ID

NoContextFor == \A s \in Summaries : LacksPairing(s) <=> collectPacersTeamContext(s) = Null

\* the step that receives the summary of a game without a pairing
NoContextSkips ==
  (fetchLog' # fetchLog /\ lastOutcome' # "fetchFailed" /\ LacksPairing(summary')) =>
    /\ context' = Null
    /\ collected' = collected /\ events' = events
    /\ runningAverages' = runningAverages
    /\ rowTrace' = {}
    /\ i' = i + 1 /\ pc' = "fetch"

\* C12: when a fetched summary has no competitor with the team id, or none
\* with another id, collectPacersTeamContext returns no context and the
\* driver emits no entry for the game, runs none of the three classifiers on
\* it, and goes on with the next id.
C12_NoContextSkipsGame == []NoContextFor /\ [][NoContextSkips]_vars

\* the second game had no pairing: the entries of the first are all there is
C12_Witness ==
  /\ lastOutcome = "noContext" /\ pc = "fetch"
  /\ Len(fetchLog) = 2 /\ i = 3
  /\ collected # <<>>

C13_Outcome ==
  /\ pc = "done" =>
       /\ written = "ok" /\ exitCode = 0
       /\ warned <=> Len(finalEntries) < MinCorpus
  /\ warned => written = "ok"
  /\ written # "no" => finalEntries = Curate(collected)
  /\ exitCode \notin {-1, 0} => (written = "failed" /\ pc = "failed")
  /\ written = "failed" => exitCode = 1

WarnsAfterWrite == warned' # warned => (written = "ok" /\ written' = "ok")

\* C13: with a final corpus below the threshold (250) the run still writes
\* the corpus and completes successfully, emitting only a warning, and the
\* warning comes after the write; only a failure of the write itself ends the
\* run with a non-zero outcome.
C13_SmallCorpusOnlyWarns == []C13_Outcome /\ [][WarnsAfterWrite]_vars

\* a run that ended well with a corpus of one entry and the warning
C13_Witness ==
  /\ pc = "done" /\ warned /\ exitCode = 0 /\ written = "ok"
  /\ Len(finalEntries) = 1 /\ Len(finalEntries) < MinCorpus

\* the row loop taken step by step and detectPlayerMoments taken as a whole
\* leave the same events and the same store
AgreesWithFold ==
  pc \in {"team", "trauma"} =>
    LET whole == detectPlayerMoments(summary, context, storeAtGameStart, seasonKey)
    IN  ~whole.threw /\ whole.events = events /\ whole.store = runningAverages

\* ---- the six trauma rules, each on its own, for the game of the frame
ProbeContext == collectPacersTeamContext(frame.summary)

ProbeSeriesEntry == FindPlayoffSeries(frame.summary.series)

RuleElimination ==
  /\ frame.summary.seasonType = 3
  /\ ProbeSeriesEntry # Null
  /\ Includes(ProbeSeriesEntry.summary, "WINS SERIES")
  /\ ~Includes(ProbeSeriesEntry.summary, "IND")

RuleGameSeven ==
  frame.summary.seasonType = 3 /\ Includes(frame.summary.detail, "GAME 7")

RuleLateRound ==
  /\ frame.summary.seasonType = 3
  /\ ProbeSeriesEntry # Null
  /\ \/ Includes(ProbeSeriesEntry.title, "CONFERENCE FINALS")
     \/ Includes(ProbeSeriesEntry.title, "NBA FINALS")

RuleRival ==
  frame.summary.seasonType = 3 /\ ProbeContext.opponent \in {"NY", "MIA"}

RuleBlownLead ==
  /\ ~getPacersPeakLeadThrows(frame.summary)
  /\ getPacersPeakLead(frame.summary, ProbeContext) >= 20

RuleBuzzer == lateOpponentGameWinner(frame.summary.plays)

\* the rationale of the first rule that matches, in the priority order
FirstTraumaWhy ==
  IF RuleElimination THEN "Playoff elimination confirmed. Remote tossed."
  ELSE IF RuleGameSeven THEN "Game 7 loss. Historic pain tier unlocked."
  ELSE IF RuleLateRound THEN "ECF/Finals loss. Banner-adjacent heartbreak."
  ELSE IF RuleRival
    THEN ProbeContext.opponent \o " playoff loss. Annual emotional tax paid."
  ELSE IF RuleBlownLead
    THEN "Led by " \o ToString(getPacersPeakLead(frame.summary, ProbeContext))
         \o " and still lost. Hope briefly existed."
  ELSE IF RuleBuzzer THEN "Buzzer-beater loss in the final 3 seconds."
  ELSE ""

TraumaReturned == frame.fn = "detectTrauma" /\ frame.at = "returned"

LostGame == ~ProbeContext.won

OneTraumaEntry(why) ==
  /\ Len(frame.value) = 1
  /\ frame.value[1].category = "TRAUMA"
  /\ frame.value[1].why = why

SingleCauseInOrder ==
  (TraumaReturned /\ LostGame) =>
    /\ Len(frame.value) <= 1
    /\ FirstTraumaWhy # "" => OneTraumaEntry(FirstTraumaWhy)

\* C14 as stated: for every lost game detectTrauma emits at most one entry,
\* with the rationale of the first matching rule in the order elimination >
\* Game 7 > conference-finals/finals round > rival > blown lead >= 20 >
\* buzzer-beater; and every playoff loss whose status detail contains
\* "GAME 7" and that had a blown lead yields exactly one TRAUMA entry whose
\* rationale is the Game 7 one.
C14_GameSevenAlwaysNamed ==
  /\ SingleCauseInOrder
  /\ (TraumaReturned /\ LostGame /\ RuleGameSeven /\ RuleBlownLead) =>
       OneTraumaEntry("Game 7 loss. Historic pain tier unlocked.")

\* C14, amended: at most one entry per lost game, with the rationale of the
\* first matching rule in the priority order; a playoff Game 7 loss with a
\* blown lead yields exactly one TRAUMA entry, whose rationale is the Game 7
\* one when the elimination rule does not match and the elimination one
\* when it does.
C14_TraumaFirstMatchWins ==
  /\ SingleCauseInOrder
  /\ (TraumaReturned /\ LostGame /\ RuleGameSeven /\ RuleBlownLead) =>
       OneTraumaEntry(IF RuleElimination
                      THEN "Playoff elimination confirmed. Remote tossed."
                      ELSE "Game 7 loss. Historic pain tier unlocked.")

\* a Game 7 playoff loss without a series result, after a blown lead and
\* with a late basket of the opponent: one entry, the Game 7 one
C14_Witness ==
  /\ TraumaReturned /\ LostGame
  /\ RuleGameSeven /\ RuleBlownLead /\ RuleBuzzer /\ ~RuleElimination
  /\ OneTraumaEntry("Game 7 loss. Historic pain tier unlocked.")

NoTraumaRule ==
  ~(RuleElimination \/ RuleGameSeven \/ RuleLateRound \/ RuleRival
    \/ RuleBlownLead \/ RuleBuzzer)

\* C15: detectTrauma emits no entry for a game the team won, whatever the
\* playoff flag, series text, peak lead or plays are, and none for a loss in
\* which none of the six rules matches.
C15_NoTraumaWithoutCause ==
  frame.fn = "detectTrauma" =>
    /\ ~LostGame => frame.at # "threw"
    /\ (frame.at = "returned" /\ ~LostGame) => frame.value = <<>>
    /\ (frame.at = "returned" /\ LostGame /\ NoTraumaRule) => frame.value = <<>>

\* a won playoff Game 7 in which the elimination, round and rival texts, a
\* 22-point lead and a late basket are all present: nothing is emitted
C15_Witness ==
  /\ TraumaReturned /\ ~LostGame
  /\ RuleGameSeven /\ RuleElimination /\ RuleRival /\ RuleBlownLead /\ RuleBuzzer
  /\ frame.value = <<>>

TeamReturned == frame.fn = "detectTeamWeirdness" /\ frame.at = "returned"

ProbePeak == getPacersPeakLead(frame.summary, ProbeContext)

ProbeFgPct == frame.summary.teamStats[1].displayValue.n

\* the entries of a list that carry the rationale
WithWhy(entries, why) == {k \in 1..Len(entries) : entries[k].why = why}

\* the five team rules: <<condition, rationale>>
TeamRules ==
  << <<ProbeContext.won /\ ProbeFgPct > 0 /\ ProbeFgPct < 35,
       "Pacers won while shooting " \o ToString(ProbeFgPct) \o ".0%. Basketball is fake.">>,
     <<LostGame /\ ProbeContext.pacersScore >= 130,
       "Dropped 130+ and still lost. Defense dissolved completely.">>,
     <<ProbeContext.oppScore >= 150,
       "Allowed 150+. Historical nonsense occurred.">>,
     <<LostGame /\ ProbePeak >= 20,
       "Blew a " \o ToString(ProbePeak) \o "-point lead.">>,
     <<LostGame /\ Includes(frame.summary.detail, "ot")
         /\ Abs(ProbeContext.pacersScore - ProbeContext.oppScore) \in {1, 2},
       "Overtime loss by "
         \o ToString(Abs(ProbeContext.pacersScore - ProbeContext.oppScore))
         \o ". Painfully precise.">> >>

\* C16: the team-weirdness rules fire independently, each exactly when its
\* own condition holds; a loss in which the team scored 130 or more (140)
\* and held a peak lead of 20 or more (22) yields both the "dropped 130+ and
\* still lost" and the "blew a lead" TEAM_WEIRDNESS entries for the game,
\* and both are still there after deduplication.
C16_TeamRulesIndependent ==
  TeamReturned =>
    /\ \A r \in 1..Len(TeamRules) :
         Cardinality(WithWhy(frame.value, TeamRules[r][2])) =
           IF TeamRules[r][1] THEN 1 ELSE 0
    /\ Len(frame.value) = Cardinality({r \in 1..Len(TeamRules) : TeamRules[r][1]})
    /\ \A k \in 1..Len(frame.value) : frame.value[k].category = "TEAM_WEIRDNESS"
    /\ (TeamRules[2][1] /\ TeamRules[4][1]) =>
         /\ WithWhy(dedupeEntries(frame.value), TeamRules[2][2]) # {}
         /\ WithWhy(dedupeEntries(frame.value), TeamRules[4][2]) # {}
         /\ dedupeEntries(frame.value) = frame.value

\* the game of the scenario: 140 points, a 22-point peak lead, lost
C16_Witness ==
  /\ TeamReturned /\ LostGame
  /\ ProbeContext.pacersScore = 140 /\ ProbePeak = 22
  /\ WithWhy(dedupeEntries(frame.value),
             "Dropped 130+ and still lost. Defense dissolved completely.") # {}
  /\ WithWhy(dedupeEntries(frame.value), "Blew a 22-point lead.") # {}

Categories == {"RANDOM_EXPLOSION", "CHAOS", "TEAM_WEIRDNESS", "TRAUMA"}

MarkersAgree(e) ==
  /\ e.category \in Categories
  /\ e.trauma \in BOOLEAN
  /\ e.category = "TRAUMA" <=> e.trauma = TRUE
  /\ e.trauma = TRUE <=> "trauma_level" \in DOMAIN e

\* C18: every entry of the final corpus (and every candidate) has a category
\* in {RANDOM_EXPLOSION, CHAOS, TEAM_WEIRDNESS, TRAUMA}, and category is
\* TRAUMA iff trauma is true iff a trauma_level field is present.
C18_TraumaMarkersAgree ==
  \A e \in Range(finalEntries) \cup Range(collected) : MarkersAgree(e)

\* a written corpus that holds a trauma entry next to entries of other kinds
C18_Witness ==
  /\ pc = "done"
  /\ \E e \in Range(finalEntries) : e.trauma /\ e.trauma_level = "HIGH"
  /\ \E e \in Range(finalEntries) : e.category = "TEAM_WEIRDNESS"
  /\ \E e \in Range(finalEntries) : e.category \in {"RANDOM_EXPLOSION", "CHAOS"}

\* ---- the row of a detectPlayerMoments frame, read cell by cell
PlayersReturned == frame.fn = "detectPlayerMoments" /\ frame.at = "returned"

ProbeRow == frame.summary.athletes[1]

Cell(k) == ProbeRow.stats[k].n

RowPoints == Cell(2)

RowSeconds ==
  IF ProbeRow.stats[1].kind \in {"null", "empty"} THEN 0
  ELSE ProbeRow.stats[1].min * 60 + ProbeRow.stats[1].sec

OfCategory(entries, category) ==
  SelectSeq(entries, LAMBDA e : e.category = category)

BenchRule == ProbeRow.starter = "false" /\ RowPoints >= 30

OrbitalRule == RowPoints >= 45

BreakoutRule ==
  /\ RowPoints >= 35
  /\ frame.average.games >= 8
  /\ frame.average.points < 12 * frame.average.games

EruptionRule == RowPoints >= 25 /\ RowSeconds > 0 /\ RowSeconds < 25 * 60

BenchWhy ==
  "Bench detonation: Miller dropped " \o ToString(RowPoints) \o " off the bench."

OrbitalWhy == "Miller went for " \o ToString(RowPoints) \o ". Full orbital launch."

\* the averages of the rows drawn are whole numbers
BreakoutWhy ==
  "Miller averaged " \o ToString(frame.average.points \div frame.average.games)
  \o ".0 then exploded for " \o ToString(RowPoints) \o "."

\* the minutes to one decimal, in tenths
RowTenths == (RowSeconds * 10 + 30) \div 60

EruptionWhy ==
  "Miller scored " \o ToString(RowPoints) \o " in " \o ToString(RowTenths \div 10)
  \o "." \o ToString(RowTenths % 10) \o " minutes."

FirstExplosionWhy ==
  IF BenchRule THEN BenchWhy
  ELSE IF OrbitalRule THEN OrbitalWhy
  ELSE IF BreakoutRule THEN BreakoutWhy
  ELSE IF EruptionRule THEN EruptionWhy
  ELSE ""

TripleDouble ==
  Cardinality({k \in {2, 3, 4, 6, 7} : Cell(k) >= 10}) >= 3

AnyChaosRule ==
  \/ TripleDouble /\ Cell(5) >= 7
  \/ Cell(5) >= 10
  \/ Cell(6) >= 6
  \/ Cell(7) >= 7
  \/ Cell(4) >= 15 /\ Cell(5) = 0

\* C19: for each athlete row the explosion rules are tried in the order
\* bench >= 30, points >= 45, breakout, efficient eruption and the first
\* match wins: at most one RANDOM_EXPLOSION entry per athlete per game, a
\* bench player with 32 points gets the bench rationale, and so does a bench
\* player with 45 or more.  The chaos group is evaluated on its own, so the
\* row yields zero, one or two entries.
C19_ExplosionFirstMatchWins ==
  PlayersReturned =>
    LET explosions == OfCategory(frame.value, "RANDOM_EXPLOSION")
        chaos      == OfCategory(frame.value, "CHAOS")
    IN  /\ frame.value = explosions \o chaos
        /\ Len(explosions) = IF FirstExplosionWhy # "" THEN 1 ELSE 0
        /\ explosions # <<>> => explosions[1].why = FirstExplosionWhy
        /\ (ProbeRow.starter = "false" /\ RowPoints \in {32} \cup {45, 50}) =>
             (explosions # <<>> /\ explosions[1].why = BenchWhy)
        /\ Len(chaos) = IF AnyChaosRule THEN 1 ELSE 0

\* a bench player with 50 points and a triple-double with 7 turnovers: two
\* entries, the first with the bench rationale
C19_Witness ==
  /\ PlayersReturned
  /\ ProbeRow.starter = "false" /\ RowPoints = 50 /\ TripleDouble /\ Cell(5) = 7
  /\ Len(frame.value) = 2
  /\ frame.value[1].category = "RANDOM_EXPLOSION" /\ frame.value[1].why = BenchWhy
  /\ frame.value[2].category = "CHAOS"

SeasonPlayed == frame.fn = "season" /\ frame.at = "played"

SeasonPoints == frame.row.stats[2].n

SeasonMinutes == frame.row.stats[1].min

\* the rationale of the breakout rule for the game just played
SeasonBreakoutWhy ==
  "Miller averaged " \o ToFixed1(frame.before.points, frame.before.games)
  \o " then exploded for " \o ToString(SeasonPoints) \o "."

SeasonEruptionWhy ==
  "Miller scored " \o ToString(SeasonPoints) \o " in " \o ToString(SeasonMinutes)
  \o ".0 minutes."

\* C20: the breakout rule ("averaged X then exploded") fires only when the
\* player already has at least 8 recorded games in the current season label,
\* so never in one of his first 8 games of a season; with zero prior games a
\* 40-point game has pre-game average 0 and triggers neither the >= 45 rule
\* nor the breakout rule.
C20_BreakoutNeedsEightGames ==
  SeasonPlayed =>
    /\ Lookup(frame.store, AvgKey(frame.label, "Miller")) = frame.played[frame.label]
    /\ frame.before.games < 8 =>
         \A k \in 1..Len(frame.value) : frame.value[k].why = SeasonEruptionWhy
    /\ (frame.before.games = 0 /\ SeasonPoints = 40 /\ SeasonMinutes >= 25) =>
         frame.value = <<>>
    /\ frame.before.games > 0 =>
         ((\E k \in 1..Len(frame.value) : frame.value[k].why = SeasonBreakoutWhy)
            <=> /\ frame.before.games >= 8
                /\ SeasonPoints >= 35
                /\ frame.before.points < 12 * frame.before.games)

\* the rule fired in the ninth game of a season label
C20_Witness ==
  /\ SeasonPlayed
  /\ frame.before.games = 8 /\ SeasonPoints = 40
  /\ frame.value # <<>> /\ frame.value[1].why = SeasonBreakoutWhy

\* C17: the final corpus is deterministic: two runs given the same set of
\* game ids and the same summaries produce the identical corpus, whatever
\* the order in which the enumerations returned the ids and however often an
\* id was returned.
C17_CorpusIndependentOfArrival ==
  (frame.fn = "main" /\ frame.at = "both") => frame.first = frame.second

\* ids returned out of order and repeated, two games on one day: both runs
\* end with the same corpus, the entries of the two games in id order
C17_Witness ==
  /\ frame.fn = "main" /\ frame.at = "both"
  /\ frame.calls = <<<<2, 1>>, <<2>>>>
  /\ frame.served[1] = GameWin /\ frame.served[2] = GameSameDay
  /\ frame.first = frame.second
  /\ Len(frame.first) = 3

\* ------------------------------------------------------------------ C21
Curated == frame.fn = "curate" /\ frame.at = "returned"

Candidates == dedupeEntries(frame.collected)

\* the place of a candidate in the deduplicated list
PlaceOf(e) == CHOOSE k \in 1..Len(Candidates) : Candidates[k] = e

\* a is selected before b: higher quality score, then more recent date,
\* then the order the stable sorts leave them in
SelectedBefore(a, b) ==
  \/ entryQualityScore(a) > entryQualityScore(b)
  \/ /\ entryQualityScore(a) = entryQualityScore(b)
     /\ \/ a.date > b.date
        \/ a.date = b.date /\ PlaceOf(a) < PlaceOf(b)

\* the candidates fewer than CorpusCap others are selected before
FirstByQuality ==
  {e \in Range(Candidates) :
     Cardinality({d \in Range(Candidates) : SelectedBefore(d, e)}) < CorpusCap}

OverCap == Curated /\ Len(Candidates) > CorpusCap

Discarded == Range(Candidates) \ Range(frame.value)

\* C21: when the deduplicated set has more than CorpusCap (400) entries, the
\* final corpus is exactly the first CorpusCap entries of that set ordered by
\* quality score descending with ties broken by more recent date first,
\* re-sorted by date descending; every retained entry has a quality score
\* greater than or equal to that of every discarded entry.
C21_CapKeepsBestByQuality ==
  OverCap =>
    /\ Len(frame.value) = CorpusCap
    /\ Range(frame.value) = FirstByQuality
    /\ IsDateDescending(frame.value)
    /\ \A k \in 1..Len(frame.value), m \in 1..Len(frame.value) :
         (k < m /\ frame.value[k].date = frame.value[m].date) =>
           SelectedBefore(frame.value[k], frame.value[m])
    /\ \A e \in Range(frame.value), d \in Discarded :
         entryQualityScore(e) >= entryQualityScore(d)

\* the cap dropped an entry more recent than one it kept, and decided
\* between two entries of one score by their dates
C21_Witness ==
  /\ OverCap
  /\ \E e \in Range(frame.value), d \in Discarded :
       d.date > e.date /\ entryQualityScore(e) > entryQualityScore(d)
  /\ \E e \in Range(frame.value), d \in Discarded :
       entryQualityScore(e) = entryQualityScore(d) /\ e.date > d.date

\* ------------------------------------------------------------------ C24
IsTrauma(e) == e.trauma = TRUE

\* C24: every trauma entry has a strictly higher quality score than every
\* non-trauma entry (trauma >= 100, non-trauma <= 85); so over the cap a
\* trauma entry is dropped only if no non-trauma entry is retained, and if
\* there are at most CorpusCap (400) trauma entries all of them are in the
\* final corpus.
C24_TraumaOutranksTheRest ==
  /\ frame.fn = "curate" =>
       \A e \in Range(frame.collected) :
         /\ IsTrauma(e) => entryQualityScore(e) >= 100
         /\ ~IsTrauma(e) => entryQualityScore(e) <= 85
  /\ OverCap =>
       /\ (\E d \in Discarded : IsTrauma(d)) => \A e \in Range(frame.value) : IsTrauma(e)
       /\ Cardinality({e \in Range(Candidates) : IsTrauma(e)}) <= CorpusCap =>
            \A e \in Range(Candidates) : IsTrauma(e) => e \in Range(frame.value)

\* a trauma entry of the lowest score, 100, kept and an entry of the highest
\* other score, 85, dropped
C24_Witness ==
  /\ OverCap
  /\ \E e \in Range(frame.value), d \in Discarded :
       /\ IsTrauma(e) /\ entryQualityScore(e) = 100
       /\ ~IsTrauma(d) /\ entryQualityScore(d) = 85

\* more trauma entries than the cap: one is dropped and none but trauma
\* entries are kept
C24_AllTraumaWitness ==
  /\ OverCap
  /\ \E d \in Discarded : IsTrauma(d)

\* ------------------------------------------------------------------ C22
HigherExplosionRule == BenchRule \/ OrbitalRule \/ BreakoutRule

EruptionEntry ==
  /\ Len(OfCategory(frame.value, "RANDOM_EXPLOSION")) = 1
  /\ OfCategory(frame.value, "RANDOM_EXPLOSION")[1].why = EruptionWhy

\* C22: when no higher-priority explosion rule matches, every athlete who
\* scored at least 25 points with a parsed minutes value under 25 gets an
\* "efficient eruption" RANDOM_EXPLOSION entry, for every minutes value
\* below 25 including the 0 that parseMinutes returns for an empty or
\* missing minutes field.
C22_EruptionForEveryValueUnder25 ==
  (PlayersReturned /\ ~HigherExplosionRule /\ RowPoints >= 25 /\ RowSeconds < 25 * 60)
    => EruptionEntry

\* C22 as the code has it: when no higher-priority explosion rule matches,
\* an athlete with at least 25 points gets the "efficient eruption" entry
\* exactly when the parsed minutes are above 0 and under 25; a parsed value
\* of 0 (empty, missing or zero minutes) yields no explosion entry.
C22_EruptionNeedsPositiveMinutes ==
  (PlayersReturned /\ ~HigherExplosionRule /\ RowPoints >= 25) =>
    /\ (RowSeconds > 0 /\ RowSeconds < 25 * 60) => EruptionEntry
    /\ (RowSeconds = 0 \/ RowSeconds >= 25 * 60) =>
         OfCategory(frame.value, "RANDOM_EXPLOSION") = <<>>

\* 25 points in 24:59 by a starter with no record: the eruption entry
C22_Witness ==
  /\ PlayersReturned /\ ~HigherExplosionRule
  /\ RowPoints = 25 /\ RowSeconds = 24 * 60 + 59
  /\ EruptionEntry

\* 40 points with the minutes cell missing: no entry
C22_NoMinutesWitness ==
  /\ PlayersReturned /\ ~HigherExplosionRule
  /\ RowPoints = 40 /\ ProbeRow.stats[1] = Null
  /\ frame.value = <<>>

\* ------------------------------------------------------------------ C23
LeadFrame == frame.fn = "getPacersPeakLead"

LeadSamplesOfGame == frame.summary.winprobability

TeamIsHome == frame.summary.competitors[1].homeAway = "home"

TeamWon == frame.summary.competitors[1].winner

\* (a) the score differential of sample k in the team's favour
TeamEdge(k) ==
  IF TeamIsHome
  THEN LeadSamplesOfGame[k].homeScore - LeadSamplesOfGame[k].awayScore
  ELSE LeadSamplesOfGame[k].awayScore - LeadSamplesOfGame[k].homeScore

\* the team's win probability at sample k, in percent
TeamWinPct(k) ==
  IF TeamIsHome THEN LeadSamplesOfGame[k].homeWinPercentage
  ELSE 100 - LeadSamplesOfGame[k].homeWinPercentage

\* (b) round((p - 0.5) * 40): the whole number n with
\* n - 1/2 <= (p - 0.5) * 40 < n + 1/2
ImpliedByProbability(k) ==
  CHOOSE n \in -21..21 :
    /\ 10 * n - 5 <= 4 * (TeamWinPct(k) - 50)
    /\ 4 * (TeamWinPct(k) - 50) < 10 * n + 5

LeadValues ==
  {0} \cup {TeamEdge(k) : k \in 1..Len(LeadSamplesOfGame)}
      \cup {ImpliedByProbability(k) : k \in 1..Len(LeadSamplesOfGame)}

ExpectedPeak == CHOOSE v \in LeadValues : \A w \in LeadValues : w <= v

\* C23: getPacersPeakLead returns the maximum, over all win-probability
\* samples, of (a) the score differential in the team's favour and (b) the
\* implied lead round((team win probability - 0.5) * 40), never less than 0
\* and 0 for an empty sample sequence; the "blew a lead" team entry and the
\* blown-lead trauma rule fire on a loss exactly when this value is >= 20.
C23_PeakLeadIsMaximum ==
  /\ (LeadFrame /\ frame.at # "call") =>
       /\ frame.peak = ExpectedPeak
       /\ frame.peak >= 0
       /\ LeadSamplesOfGame = <<>> => frame.peak = 0
  /\ (LeadFrame /\ frame.at \in {"team", "trauma"}) =>
       IF ~TeamWon /\ ExpectedPeak >= 20
       THEN /\ Len(frame.team) = 1
            /\ frame.team[1].category = "TEAM_WEIRDNESS"
            /\ frame.team[1].why = "Blew a " \o ToString(ExpectedPeak) \o "-point lead."
       ELSE frame.team = <<>>
  /\ (LeadFrame /\ frame.at = "trauma") =>
       IF ~TeamWon /\ ExpectedPeak >= 20
       THEN /\ Len(frame.trauma) = 1
            /\ frame.trauma[1].trauma = TRUE
            /\ frame.trauma[1].why = "Led by " \o ToString(ExpectedPeak)
                                       \o " and still lost. Hope briefly existed."
       ELSE frame.trauma = <<>>

\* a road loss never led on the scoreboard by more than 19 whose win
\* probability reached 99 percent: implied lead 20, both entries
C23_Witness ==
  /\ LeadFrame /\ frame.at = "trauma"
  /\ ~TeamWon /\ ~TeamIsHome
  /\ \A k \in 1..Len(LeadSamplesOfGame) : TeamEdge(k) < 20
  /\ \E k \in 1..Len(LeadSamplesOfGame) : TeamWinPct(k) = 99
  /\ frame.peak = 20
  /\ frame.team # <<>> /\ frame.trauma # <<>>

\* a loss with leads of 19 by both measures: no entry
C23_NineteenWitness ==
  /\ LeadFrame /\ frame.at = "trauma"
  /\ ~TeamWon /\ frame.peak = 19
  /\ \E k \in 1..Len(LeadSamplesOfGame) : TeamEdge(k) = 19
  /\ \E k \in 1..Len(LeadSamplesOfGame) : ImpliedByProbability(k) = 19
  /\ frame.team = <<>> /\ frame.trauma = <<>>

\* ------------------------------------------------------------------ C25
Card == frame.fn = "RememberThisCard"

CardInvariant ==
  Card =>
    /\ frame.inflight <= 1
    /\ (frame.inflight > 0 /\ frame.button.present) => frame.button.disabled
    /\ frame.button.present => frame.button.listeners = 1
    /\ (frame.inflight = 0 /\ frame.content = "entry") =>
         (frame.button.present /\ ~frame.button.disabled)

\* a refresh starts only with the initial call or with a click on an
\* enabled button
StartsOnlyByCallOrClick ==
  (Card /\ frame'.started > frame.started) =>
    /\ frame'.started = frame.started + 1
    /\ frame.inflight = 0
    /\ \/ frame.at = "created"
       \/ frame.button.present /\ ~frame.button.disabled

\* C25: in the RememberThisCard widget at most one refresh is in flight at
\* any time: a refresh is started only by the initial call or by a click on
\* an enabled refresh button, the button is disabled from the start of a
\* refresh until its fetch settles, each rendered button carries exactly one
\* click listener, and after a refresh that rendered an entry the button is
\* enabled again.
C25_OneRefreshInFlight == []CardInvariant /\ [][StartsOnlyByCallOrClick]_vars

\* a second entry rendered after a click, the button enabled again
C25_Witness ==
  /\ Card /\ frame.inflight = 0
  /\ frame.started = 2 /\ Len(frame.shown) = 2 /\ frame.shown[1] # frame.shown[2]
  /\ frame.button.present /\ ~frame.button.disabled /\ frame.button.listeners = 1

\* a click has started a refresh that still waits: the button is disabled
C25_WaitingWitness ==
  /\ Card /\ frame.inflight = 1 /\ frame.started = 2
  /\ frame.button.present /\ frame.button.disabled

====
